---------------------------- MODULE Spec2Model ----------------------------
(***************************************************************************)
(* Model of the Order Intelligence Platform dispatch core:                 *)
(*   - PackWorkflow            (src/unnamed/part_002, lines 548-1578)      *)
(*   - DispatchPriorityQueue   (src/unnamed/part_002, lines 1-547)         *)
(*   - BatchOptimizer          (src/js/dispatch/batchOptimizer.js)         *)
(* Time is counted in minutes.  JavaScript values that may be a number, a  *)
(* Date, a string or null are modelled as tagged records so that every     *)
(* field has one shape.                                                    *)
(***************************************************************************)
EXTENDS Integers, Sequences, FiniteSets, TLC

VARIABLES
    now,            \* the wall clock (new Date()), minutes
    \* ---- PackWorkflow
    ordersData,     \* window.ordersData: mutable part of each pool order
    packSessions,   \* this.packSessions   (Map orderNumber -> session)
    packHistory,    \* this.packHistory    (Array of completed sessions)
    workerMetrics,  \* this.workerMetrics  (Map workerName -> metrics)
    globalMetrics,  \* the module-level WorkerMetrics accumulator
    storage,        \* localStorage['packWorkflowState']
    packCall,       \* observation of the last PackWorkflow call
    opCount,        \* successful PackWorkflow calls so far (bounds the run)
    \* ---- DispatchPriorityQueue
    qOrders,          \* this.orders           (Array of order records)
    priorityQueue,    \* this.priorityQueue    (Array of ranked records)
    dirtyOrders,      \* this.dirtyOrders      (Set of order numbers)
    calculationCache, \* this.calculationCache (Map key -> {score, timestamp})
    isCalculating,    \* this.isCalculating
    lastCalculation,  \* this.lastCalculation
    totalCalculations,\* this.performanceMetrics.totalCalculations
    queueCall,        \* observation of the last DispatchPriorityQueue call
    queueOps,         \* calls made on the queue so far (bounds the run)
    \* ---- BatchOptimizer
    analysisCache,    \* this.analysisCache (Map key -> result), with the
                      \* time each entry's deletion timer was started
    cacheHits,        \* this.performanceMetrics.cacheHits
    cacheMisses,      \* this.performanceMetrics.cacheMisses
    batchesCreated,   \* this.performanceMetrics.batchesCreated
    totalTimeSaved,   \* this.performanceMetrics.totalTimeSaved
    efficiencyGains,  \* this.performanceMetrics.efficiencyGains (Array)
    batchCall         \* observation of the last BatchOptimizer call

packVars == <<ordersData, packSessions, packHistory, workerMetrics,
              globalMetrics, storage, packCall, opCount>>

queueVars == <<qOrders, priorityQueue, dirtyOrders, calculationCache,
               isCalculating, lastCalculation, totalCalculations, queueCall,
               queueOps>>
executionMetrics == <<batchesCreated, totalTimeSaved, efficiencyGains>>
batchVars == <<analysisCache, cacheHits, cacheMisses, executionMetrics,
               batchCall>>
notPackVars == <<queueVars, batchVars>>
notQueueVars == <<packVars, batchVars>>
notBatchVars == <<packVars, queueVars>>
vars == <<now, packVars, queueVars, batchVars>>

(***************************************************************************)
(* Bounds of the model                                                     *)
(***************************************************************************)
MaxTime == 1
MaxActive == 1
MaxOps == 5
MaxNotes == 1
MaxQueueOps == 4
MaxScoreCalls == 2
MaxElapsed == 6
MaxLoaded == 4
MaxBatchCalls == 3
MaxExecutions == 1
MaxHistory == 102
MaxBatchElapsed == 6
BatchTickMinutes == 3

(***************************************************************************)
(* Generic helpers                                                         *)
(***************************************************************************)
Max2(a, b) == IF a >= b THEN a ELSE b
Min2(a, b) == IF a <= b THEN a ELSE b

\* ceil(a / b) for b > 0 (Math.ceil of an exact quotient)
CeilDiv(a, b) == -((-a) \div b)

\* JavaScript numbers that may also be NaN, Infinity or null
Num(n) == [k |-> "num", v |-> n]
NaN == [k |-> "nan", v |-> 0]
Infinity == [k |-> "inf", v |-> 0]
NullNum == [k |-> "null", v |-> 0]

\* ToNumber(null) is 0
ToNumber(x) == IF x.k = "null" THEN Num(0) ELSE x

JsAdd(a, b) ==
    LET x == ToNumber(a)
        y == ToNumber(b)
    IN  IF x.k = "nan" \/ y.k = "nan" THEN NaN
        ELSE IF x.k = "inf" \/ y.k = "inf" THEN Infinity
        ELSE Num(x.v + y.v)

JsMin(a, b) ==
    LET x == ToNumber(a)
        y == ToNumber(b)
    IN  IF x.k = "nan" \/ y.k = "nan" THEN NaN
        ELSE IF x.k = "inf" THEN y
        ELSE IF y.k = "inf" THEN x
        ELSE Num(Min2(x.v, y.v))

JsMax(a, b) ==
    LET x == ToNumber(a)
        y == ToNumber(b)
    IN  IF x.k = "nan" \/ y.k = "nan" THEN NaN
        ELSE IF x.k = "inf" \/ y.k = "inf" THEN Infinity
        ELSE Num(Max2(x.v, y.v))

\* JSON.stringify turns NaN and Infinity into null
JsonNum(x) == IF x.k \in {"nan", "inf"} THEN NullNum ELSE x

\* total / count kept exact; NaN / n is NaN
Ratio(total, count) ==
    IF ToNumber(total).k = "num"
    THEN [k |-> "num", num |-> ToNumber(total).v, den |-> count]
    ELSE [k |-> ToNumber(total).k, num |-> 0, den |-> 1]

JsonRatio(r) ==
    IF r.k \in {"nan", "inf"} THEN [k |-> "null", num |-> 0, den |-> 1] ELSE r

\* A Date object, its JSON form (an ISO string) and null
DateAt(t) == [k |-> "date", t |-> t]
IsoAt(t) == [k |-> "iso", t |-> t]
NullDate == [k |-> "null", t |-> 0]

\* JSON.stringify turns a Date into its ISO string
JsonDate(d) == IF d.k = "date" THEN IsoAt(d.t) ELSE d

\* endTime - startTime on two timestamps: a Date converts to its time value,
\* an ISO string converts to NaN, null converts to 0
DateDiff(endTime, startTime) ==
    IF endTime.k = "iso" \/ startTime.k = "iso" THEN NaN
    ELSE Num((IF endTime.k = "null" THEN 0 ELSE endTime.t)
             - (IF startTime.k = "null" THEN 0 ELSE startTime.t))


(***************************************************************************)
(* PackWorkflow: constants                                                 *)
(***************************************************************************)
PackStates == {"pending", "picking", "packing", "packed", "dispatched"}

\* timestamps keys: the four preset at start plus any status stamped later
TimestampKeys == {"started"} \cup PackStates

\* window.ordersData: the immutable fields of the pool orders.  quantity and
\* expectedDispatch (minutes) feed estimatePackTime / calculatePackPriority.
OrderPool == {"A1", "A2"}

PoolOrder(o) ==
    CASE o = "A1" -> [product |-> "Laptop", category |-> "electronics",
                      sku |-> "LAP-01", quantity |-> 1, expectedDispatch |-> 2]
      [] o = "A2" -> [product |-> "Laptop", category |-> "electronics",
                      sku |-> "LAP-01", quantity |-> 3, expectedDispatch |-> 1441]
      [] o = "A3" -> [product |-> "Laptop", category |-> "electronics",
                      sku |-> "LAP-01", quantity |-> 1, expectedDispatch |-> 1441]

\* the order list of the dispatch page, in the order of the array
FloorOrders == <<"A1", "A2", "A3">>
FloorPool == {FloorOrders[i] : i \in 1..Len(FloorOrders)}

\* an order number that is not in window.ordersData
\* with "Z9", the number of no order
OrderNumbers == OrderPool \cup {"Z9"}

WorkerNames == {"W1", "W2"}

\* status names a caller may pass, one of them not a PackStates value
StatusInputs == PackStates \cup {"shipped"}

NoteInputs == {"", "checked"}

MinutesPerDay == 1440
HistoryKept == 100

(***************************************************************************)
(* PackWorkflow: pure helpers                                              *)
(***************************************************************************)
ValidTransitions(currentState) ==
    CASE currentState = "pending" -> {"picking"}
      [] currentState = "picking" -> {"packing", "pending"}
      [] currentState = "packing" -> {"packed", "picking"}
      [] currentState = "packed" -> {"dispatched"}
      [] currentState = "dispatched" -> {}
      [] OTHER -> {}

\* a faulty variant: a same-state request is accepted
isValidStateTransition_SameState(currentState, newState) ==
    newState \in ValidTransitions(currentState) \cup {currentState}

isValidStateTransition(currentState, newState) ==
    newState \in ValidTransitions(currentState)

calculatePackPriority(o, t) ==
    LET daysUntilDispatch ==
            CeilDiv(PoolOrder(o).expectedDispatch - t, MinutesPerDay)
    IN  IF daysUntilDispatch <= 0 THEN "critical"
        ELSE IF daysUntilDispatch = 1 THEN "high"
        ELSE IF daysUntilDispatch <= 3 THEN "medium"
        ELSE "low"

\* category multipliers in tenths
CategoryMultiplier(category) ==
    CASE category = "electronics" -> 15
      [] category = "fragile" -> 20
      [] category = "heavy" -> 13
      [] OTHER -> 10

estimatePackTime(o) ==
    LET baseTime == 5 + Max2(0, (PoolOrder(o).quantity - 1) * 2)
    IN  CeilDiv(baseTime * CategoryMultiplier(PoolOrder(o).category), 10)

\* Math.round((endTime - startTime) / 60000), in minutes
calculatePackDuration(session) ==
    DateDiff(session.timestamps["packed"], session.timestamps["picking"])

findOrderByNumber(data, orderNumber) == orderNumber \in DOMAIN data

\* the order numbers findSimilarOrders returns for a pool order
findSimilarOrders(o, data, sessions) ==
    {p \in DOMAIN data :
        /\ p # o
        /\ data[p].status # "dispatched"
        /\ p \notin DOMAIN sessions
        /\ \/ PoolOrder(p).product = PoolOrder(o).product
           \/ PoolOrder(p).category = PoolOrder(o).category
           \/ PoolOrder(p).sku = PoolOrder(o).sku}

calculateBatchSaving(n) == Max2(0, n * 8 - Max2(3, n * 4))

updateOrderStatus(data, orderNumber, status, t) ==
    IF orderNumber \in DOMAIN data
    THEN [data EXCEPT ![orderNumber] =
            [status |-> status, lastUpdated |-> DateAt(t)]]
    ELSE data

\* JSON.stringify / JSON.parse of one session object
JsonSession(s) ==
    [s EXCEPT !.startTime = JsonDate(@),
              !.timestamps = [key \in TimestampKeys |-> JsonDate(@[key])],
              !.actualDuration = JsonNum(@),
              !.completed = JsonDate(@),
              !.notes = [i \in DOMAIN @ |->
                            [@[i] EXCEPT !.timestamp = JsonDate(@)]]]

JsonMetrics(m) ==
    [m EXCEPT !.totalPackTime = JsonNum(@),
              !.averagePackTime = JsonRatio(@),
              !.bestTime = JsonNum(@),
              !.worstTime = JsonNum(@),
              !.packedOrders = [i \in DOMAIN @ |->
                    [@[i] EXCEPT !.duration = JsonNum(@),
                                 !.timestamp = JsonDate(@)]]]

\* packHistory.slice(-100)
LastRecords(history, n) ==
    IF Len(history) <= n THEN history
    ELSE SubSeq(history, Len(history) - n + 1, Len(history))

\* the state savePackWorkflowState writes to localStorage (its write-only
\* 'timestamp' field, which nothing reads back, is left out)
SavedState(sessions, history, metrics) ==
    [saved |-> TRUE,
     packSessions |-> [o \in DOMAIN sessions |-> JsonSession(sessions[o])],
     packHistory |-> [i \in DOMAIN LastRecords(history, HistoryKept) |->
                        JsonSession(LastRecords(history, HistoryKept)[i])],
     workerMetrics |-> [w \in DOMAIN metrics |-> JsonMetrics(metrics[w])]]

EmptyMap == [x \in {} |-> x]

NoSavedState ==
    [saved |-> FALSE, packSessions |-> EmptyMap, packHistory |-> <<>>,
     workerMetrics |-> EmptyMap]


(***************************************************************************)
(* PackWorkflow: operations                                                *)
(***************************************************************************)
\* function f with key k set to v (Map.set)
MapSet(f, k, v) == [x \in DOMAIN f \cup {k} |-> IF x = k THEN v ELSE f[x]]

\* a faulty variant: the completed session is not deleted from the map
MapDelete_Keep(f, k) == f

\* function f without key k (Map.delete)
MapDelete(f, k) == [x \in DOMAIN f \ {k} |-> f[x]]

NewSession(orderNumber, workerName, t) ==
    [orderNumber |-> orderNumber,
     workerName |-> workerName,
     status |-> "picking",
     startTime |-> DateAt(t),
     timestamps |-> [key \in TimestampKeys |->
                        IF key \in {"started", "picking"} THEN DateAt(t)
                        ELSE NullDate],
     priority |-> calculatePackPriority(orderNumber, t),
     estimatedDuration |-> estimatePackTime(orderNumber),
     actualDuration |-> NullNum,
     notes |-> <<>>,
     completed |-> NullDate]

NewWorkerMetrics ==
    [totalPackTime |-> Num(0), packCount |-> 0,
     averagePackTime |-> Ratio(Num(0), 1),
     bestTime |-> Infinity, worstTime |-> Num(0), packedOrders |-> <<>>]

\* recordPackingMetrics: the per-worker accumulator after one more sample
recordPackingMetrics(metrics, orderNumber, duration, workerName, t) ==
    LET m == IF workerName \in DOMAIN metrics THEN metrics[workerName]
             ELSE NewWorkerMetrics
        total == JsAdd(m.totalPackTime, duration)
    IN  MapSet(metrics, workerName,
            [totalPackTime |-> total,
             packCount |-> m.packCount + 1,
             averagePackTime |-> Ratio(total, m.packCount + 1),
             bestTime |-> JsMin(m.bestTime, duration),
             worstTime |-> JsMax(m.worstTime, duration),
             packedOrders |-> Append(m.packedOrders,
                 [orderNumber |-> orderNumber, duration |-> duration,
                  timestamp |-> DateAt(t)])])

\* the module-level WorkerMetrics accumulator after one more sample
recordGlobalMetrics(g, duration) ==
    [totalPackTime |-> JsAdd(g.totalPackTime, duration),
     packCount |-> g.packCount + 1,
     averagePackTime |-> Ratio(JsAdd(g.totalPackTime, duration), g.packCount + 1)]

\* a faulty variant of ErrorMessage: the message names no order
ErrorMessage_Anonymous(error, orderNumber, previousStatus, newStatus) ==
    <<error>>

\* the message of the Error a call throws, as the parts of its template literal
ErrorMessage(error, orderNumber, previousStatus, newStatus) ==
    CASE error = "not found" -> <<"Order ", orderNumber, " not found">>
      [] error = "already in pack workflow" ->
            <<"Order ", orderNumber, " already in pack workflow">>
      [] error = "No active pack session" ->
            <<"No active pack session for order ", orderNumber>>
      [] error = "Invalid state transition" ->
            <<"Invalid state transition from ", previousStatus, " to ", newStatus>>

\* a faulty variant: the two statuses of the payload change places
PackEvent_StatusesSwapped(type, orderNumber, previousStatus, newStatus) ==
    [type |-> type, orderNumber |-> orderNumber,
     previousStatus |-> newStatus, newStatus |-> previousStatus]

PackEvent(type, orderNumber, previousStatus, newStatus) ==
    [type |-> type, orderNumber |-> orderNumber,
     previousStatus |-> previousStatus, newStatus |-> newStatus]

\* a faulty variant of packSessionsHas: no order is ever seen as active
packSessionsHas_Never(sessions, orderNumber) == FALSE

\* this.packSessions.has(orderNumber)
packSessionsHas(sessions, orderNumber) == orderNumber \in DOMAIN sessions

StartPackWorkflow(orderNumber, workerName) ==
    /\ UNCHANGED notPackVars
    /\ IF ~findOrderByNumber(ordersData, orderNumber)
       THEN /\ packCall' = [op |-> "startPackWorkflow", orderNumber |-> orderNumber,
                            error |-> "not found",
                            message |-> ErrorMessage("not found", orderNumber, "", ""),
                            events |-> <<>>]
            /\ UNCHANGED <<now, ordersData, packSessions, packHistory,
                           workerMetrics, globalMetrics, storage, opCount>>
       ELSE IF packSessionsHas(packSessions, orderNumber)
       THEN /\ packCall' = [op |-> "startPackWorkflow", orderNumber |-> orderNumber,
                            error |-> "already in pack workflow",
                            message |-> ErrorMessage("already in pack workflow",
                                            orderNumber, "", ""),
                            events |-> <<>>]
            /\ UNCHANGED <<now, ordersData, packSessions, packHistory,
                           workerMetrics, globalMetrics, storage, opCount>>
       ELSE LET sessions == MapSet(packSessions, orderNumber,
                                   NewSession(orderNumber, workerName, now))
                similar == findSimilarOrders(orderNumber, ordersData', sessions)
            IN  /\ opCount < MaxOps /\ opCount' = opCount + 1
                /\ Cardinality(DOMAIN sessions) <= MaxActive
                /\ packSessions' = sessions
                /\ ordersData' = updateOrderStatus(ordersData, orderNumber, "picking", now)
                /\ storage' = SavedState(sessions, packHistory, workerMetrics)
                /\ packCall' =
                       [op |-> "startPackWorkflow", orderNumber |-> orderNumber,
                        error |-> "", message |-> <<>>,
                        events |->
                           <<PackEvent("pack-started", orderNumber, "", "picking"),
                             PackEvent("queue-updated", orderNumber, "", "")>>
                           \o (IF Cardinality(similar) > 1
                               THEN <<PackEvent("batch-detected", orderNumber, "", "")>>
                               ELSE <<>>)]
                /\ UNCHANGED <<now, packHistory, workerMetrics, globalMetrics>>

\* completePackWorkflow: the history after the session moved into it
completePackWorkflow(history, session, t) ==
    Append(history, [session EXCEPT !.completed = DateAt(t),
                                    !.status = "dispatched"])

UpdatePackStatus(orderNumber, newStatus, notes) ==
    /\ UNCHANGED notPackVars
    /\ IF orderNumber \notin DOMAIN packSessions
       THEN /\ packCall' = [op |-> "updatePackStatus", orderNumber |-> orderNumber,
                            error |-> "No active pack session",
                            message |-> ErrorMessage("No active pack session",
                                            orderNumber, "", ""),
                            events |-> <<>>]
            /\ UNCHANGED <<now, ordersData, packSessions, packHistory,
                           workerMetrics, globalMetrics, storage, opCount>>
       ELSE IF ~isValidStateTransition(packSessions[orderNumber].status, newStatus)
       THEN /\ packCall' = [op |-> "updatePackStatus", orderNumber |-> orderNumber,
                            error |-> "Invalid state transition",
                            message |-> ErrorMessage("Invalid state transition",
                                            orderNumber,
                                            packSessions[orderNumber].status,
                                            newStatus),
                            events |-> <<>>]
            /\ UNCHANGED <<now, ordersData, packSessions, packHistory,
                           workerMetrics, globalMetrics, storage, opCount>>
       ELSE LET session == packSessions[orderNumber]
                previousStatus == session.status
                stamped == [session EXCEPT
                               !.status = newStatus,
                               !.timestamps[newStatus] = DateAt(now),
                               !.notes = IF notes # ""
                                         THEN Append(@, [timestamp |-> DateAt(now),
                                                         note |-> notes,
                                                         worker |-> session.workerName])
                                         ELSE @]
                duration == calculatePackDuration(stamped)
                updated == IF newStatus = "packed"
                           THEN [stamped EXCEPT !.actualDuration = duration]
                           ELSE stamped
                metrics == IF newStatus = "packed"
                           THEN recordPackingMetrics(workerMetrics, orderNumber,
                                    duration, session.workerName, now)
                           ELSE workerMetrics
                sessions == IF newStatus = "dispatched"
                            THEN MapDelete(packSessions, orderNumber)
                            ELSE [packSessions EXCEPT ![orderNumber] = updated]
                history == IF newStatus = "dispatched"
                           THEN completePackWorkflow(packHistory, updated, now)
                           ELSE packHistory
            IN  /\ notes # "" => Len(session.notes) < MaxNotes
                /\ opCount < MaxOps /\ opCount' = opCount + 1
                /\ packSessions' = sessions
                /\ packHistory' = history
                /\ workerMetrics' = metrics
                /\ globalMetrics' = IF newStatus = "packed"
                                    THEN recordGlobalMetrics(globalMetrics, duration)
                                    ELSE globalMetrics
                /\ ordersData' = updateOrderStatus(ordersData, orderNumber, newStatus, now)
                /\ storage' = SavedState(sessions, history, metrics)
                /\ packCall' =
                       [op |-> "updatePackStatus", orderNumber |-> orderNumber,
                        error |-> "", message |-> <<>>,
                        events |->
                           (IF newStatus = "packed"
                            THEN <<PackEvent("metrics-updated", orderNumber, "", "")>>
                            ELSE <<>>)
                           \o (IF newStatus = "dispatched"
                               THEN <<PackEvent("pack-completed", orderNumber, "", "")>>
                               ELSE <<>>)
                           \o <<PackEvent("pack-status-updated", orderNumber,
                                          previousStatus, newStatus)>>]
                /\ UNCHANGED now

\* handleMarkDelivered(orderNumber) of the integration: the order record is
\* set to dispatched, then an active session is sent to dispatched with
\* updatePackStatus, whose error is caught (dispatchedDate, which the
\* workflow never reads, is left out)
HandleMarkDelivered(orderNumber) ==
    IF orderNumber \notin DOMAIN ordersData
    THEN /\ UNCHANGED notPackVars
         /\ packCall' = [op |-> "handleMarkDelivered",
                         orderNumber |-> orderNumber, error |-> "not found",
                         message |-> ErrorMessage("not found", orderNumber, "", ""),
                         events |-> <<>>]
         /\ UNCHANGED <<now, ordersData, packSessions, packHistory,
                        workerMetrics, globalMetrics, storage, opCount>>
    ELSE IF /\ packSessionsHas(packSessions, orderNumber)
            /\ isValidStateTransition(packSessions[orderNumber].status,
                                      "dispatched")
    THEN UpdatePackStatus(orderNumber, "dispatched", "Marked as delivered")
    ELSE /\ UNCHANGED notPackVars
         /\ ordersData' = updateOrderStatus(ordersData, orderNumber,
                                            "dispatched", now)
         /\ packCall' =
                IF packSessionsHas(packSessions, orderNumber)
                THEN [op |-> "handleMarkDelivered", orderNumber |-> orderNumber,
                      error |-> "Invalid state transition",
                      message |-> ErrorMessage("Invalid state transition",
                                        orderNumber,
                                        packSessions[orderNumber].status,
                                        "dispatched"),
                      events |-> <<>>]
                ELSE [op |-> "handleMarkDelivered", orderNumber |-> orderNumber,
                      error |-> "", message |-> <<>>, events |-> <<>>]
         /\ UNCHANGED <<now, packSessions, packHistory, workerMetrics,
                        globalMetrics, storage, opCount>>

\* restorePackWorkflowState: the 'dataImported' listener (and the constructor)
RestorePackWorkflowState ==
    /\ UNCHANGED notPackVars
    /\ packCall' = [op |-> "restorePackWorkflowState", orderNumber |-> "",
                    error |-> "", message |-> <<>>, events |-> <<>>]
    /\ IF ~storage.saved
       THEN UNCHANGED <<packSessions, packHistory, workerMetrics>>
       ELSE /\ packSessions' = storage.packSessions
            /\ packHistory' = storage.packHistory
            /\ workerMetrics' = storage.workerMetrics
    /\ UNCHANGED <<now, ordersData, globalMetrics, storage, opCount>>

\* savePackWorkflowState() called on its own
SavePackWorkflowState ==
    /\ UNCHANGED notPackVars
    /\ storage' = SavedState(packSessions, packHistory, workerMetrics)
    /\ packCall' = [op |-> "savePackWorkflowState", orderNumber |-> "",
                    error |-> "", message |-> <<>>, events |-> <<>>]
    /\ UNCHANGED <<now, ordersData, packSessions, packHistory, workerMetrics,
                   globalMetrics, opCount>>

\* time passes between two calls
Tick ==
    /\ UNCHANGED notPackVars
    /\ now < MaxTime
    /\ now' = now + 1
    /\ packCall' = [op |-> "tick", orderNumber |-> "", error |-> "",
                    message |-> <<>>,
                    events |-> <<>>]
    /\ UNCHANGED <<ordersData, packSessions, packHistory, workerMetrics,
                   globalMetrics, storage, opCount>>

\* the workflow after its constructor, over a list of orders
PackConstructed(pool) ==
    /\ ordersData = [o \in pool |->
                        [status |-> "pending", lastUpdated |-> NullDate]]
    /\ packSessions = EmptyMap
    /\ packHistory = <<>>
    /\ workerMetrics = EmptyMap
    /\ globalMetrics = [totalPackTime |-> Num(0), packCount |-> 0,
                        averagePackTime |-> Ratio(Num(0), 1)]
    /\ storage = NoSavedState /\ opCount = 0
    /\ packCall = [op |-> "constructor", orderNumber |-> "", error |-> "",
                   message |-> <<>>,
                   events |-> <<>>]

PackInit == PackConstructed(OrderPool)

PackNext ==
    \/ \E o \in OrderNumbers, w \in WorkerNames : StartPackWorkflow(o, w)
    \/ \E o \in OrderNumbers, s \in StatusInputs, n \in NoteInputs :
            UpdatePackStatus(o, s, n)
    \/ RestorePackWorkflowState
    \/ Tick


(***************************************************************************)
(* DispatchPriorityQueue: constants and inputs                             *)
(***************************************************************************)
MinutesPerHour == 60
CacheExpiryMinutes == 5

\* an unparseable date string, and a non-numeric orderTotal string
BadDate == [k |-> "bad", t |-> 0]
NonNumeric == [k |-> "text", v |-> 0]

QOrder(orderNumber, orderDate, expectedDispatch, deliveryBy, orderTotal) ==
    [orderNumber |-> orderNumber, orderDate |-> orderDate,
     expectedDispatch |-> expectedDispatch, deliveryBy |-> deliveryBy,
     orderTotal |-> orderTotal]

\* the order records the loader may supply (times in minutes)
QueueOrder(o) ==
    CASE o = "Q1" -> QOrder(o, DateAt(-600), DateAt(61), DateAt(2000), Num(300))
      [] o = "Q2" -> QOrder(o, DateAt(-600), DateAt(-10), DateAt(2000), Num(300))
      [] o = "Q3" -> QOrder(o, DateAt(-600), DateAt(-10), DateAt(2000), Num(400))
      [] o = "Q4" -> QOrder(o, DateAt(-660), DateAt(-10), DateAt(2000), Num(400))
      [] o = "Q5" -> QOrder(o, DateAt(-30), DateAt(122), NullDate, Num(50))
      [] o = "Q6" -> QOrder(o, BadDate, DateAt(-10), DateAt(2000), Num(900))

\* the lists updateQueue(orders) is called with
LoadChoices ==
    {[i \in 1..Len(numbers) |-> QueueOrder(numbers[i])] :
        numbers \in {<<>>, <<"Q5">>, <<"Q1", "Q2">>,
                     <<"Q1", "Q2", "Q3", "Q4">>, <<"Q6", "Q5", "Q3">>}}

QueueOrderNumbers == {"Q1", "Q2", "Q3", "Q4", "Q5", "Q6"}

\* values a caller later writes into a loaded order's scoring fields
EditedTotals == {Num(2000), NonNumeric}
EditedDispatch == {DateAt(3000), BadDate}

\* the clock when the queue is constructed, and the steps it advances by
QueueStartTimes == {0, 57}
QueueTickMinutes == 3

(***************************************************************************)
(* DispatchPriorityQueue: scoring                                          *)
(***************************************************************************)
\* parseDate: the time value, or "null" for a missing or unparseable input
parseDate(dateInput) ==
    IF dateInput.k = "date" THEN dateInput ELSE NullDate

\* parseFloat(order.orderTotal) || 0
parseOrderValue(orderTotal) ==
    IF orderTotal.k = "num" THEN orderTotal.v ELSE 0

validateOrderForDPS(order) ==
    /\ {"orderNumber", "orderDate", "expectedDispatch", "orderTotal"}
            \subseteq DOMAIN order
    /\ order.orderDate.k # "null"
    /\ order.expectedDispatch.k # "null"
    /\ order.orderTotal.k # "null"

\* 600 x the dispatch deadline score (the tail beyond 48 h is 25 - (h-48)/10)
calculateDispatchDeadlineScore(t, expectedDispatch) ==
    LET minutesUntilDispatch == expectedDispatch - t
    IN  IF minutesUntilDispatch <= 0 THEN 600 * 100
        ELSE IF minutesUntilDispatch <= 2 * MinutesPerHour THEN 600 * 100
        ELSE IF minutesUntilDispatch <= 4 * MinutesPerHour THEN 600 * 90
        ELSE IF minutesUntilDispatch <= 8 * MinutesPerHour THEN 600 * 80
        ELSE IF minutesUntilDispatch <= 12 * MinutesPerHour THEN 600 * 70
        ELSE IF minutesUntilDispatch <= 24 * MinutesPerHour THEN 600 * 50
        ELSE IF minutesUntilDispatch <= 48 * MinutesPerHour THEN 600 * 25
        ELSE Max2(0, 600 * 25 - (minutesUntilDispatch - 48 * MinutesPerHour))

calculateDeliveryPromiseScore(orderDate, deliveryBy) ==
    IF deliveryBy.k = "null" THEN 50
    ELSE LET deliveryWindow == deliveryBy.t - orderDate.t
         IN  IF deliveryWindow <= 24 * MinutesPerHour THEN 100
             ELSE IF deliveryWindow <= 48 * MinutesPerHour THEN 80
             ELSE IF deliveryWindow <= 72 * MinutesPerHour THEN 60
             ELSE IF deliveryWindow <= 120 * MinutesPerHour THEN 40
             ELSE IF deliveryWindow <= 168 * MinutesPerHour THEN 20
             ELSE 10

\* a faulty variant of calculateOrderAgeScore: the newest orders get the
\* maximum
calculateOrderAgeScore_NewestFirst(t, orderDate) ==
    LET age == t - orderDate
    IN  IF age <= 2 * MinutesPerHour THEN 100
        ELSE IF age <= 24 * MinutesPerHour THEN 50
        ELSE 10

\* a faulty variant of calculateOrderAgeScore: an order older than a day
\* already gets the maximum
calculateOrderAgeScore_DayOld(t, orderDate) ==
    LET age == t - orderDate
    IN  IF age <= 2 * MinutesPerHour THEN 10
        ELSE IF age <= 6 * MinutesPerHour THEN 20
        ELSE IF age <= 12 * MinutesPerHour THEN 30
        ELSE IF age <= 24 * MinutesPerHour THEN 50
        ELSE 100

calculateOrderAgeScore(t, orderDate) ==
    LET age == t - orderDate
    IN  IF age <= 2 * MinutesPerHour THEN 10
        ELSE IF age <= 6 * MinutesPerHour THEN 20
        ELSE IF age <= 12 * MinutesPerHour THEN 30
        ELSE IF age <= 24 * MinutesPerHour THEN 50
        ELSE IF age <= 48 * MinutesPerHour THEN 70
        ELSE IF age <= 72 * MinutesPerHour THEN 85
        ELSE 100

\* a faulty variant: the bands up to 250 and up to 500 change places
calculateOrderValueScore_Dip(orderValue) ==
    IF orderValue <= 0 THEN 0
    ELSE IF orderValue <= 25 THEN 10
    ELSE IF orderValue <= 50 THEN 20
    ELSE IF orderValue <= 100 THEN 30
    ELSE IF orderValue <= 250 THEN 70
    ELSE IF orderValue <= 500 THEN 50
    ELSE IF orderValue <= 1000 THEN 85
    ELSE 100

calculateOrderValueScore(orderValue) ==
    IF orderValue <= 0 THEN 0
    ELSE IF orderValue <= 25 THEN 10
    ELSE IF orderValue <= 50 THEN 20
    ELSE IF orderValue <= 100 THEN 30
    ELSE IF orderValue <= 250 THEN 50
    ELSE IF orderValue <= 500 THEN 70
    ELSE IF orderValue <= 1000 THEN 85
    ELSE 100

\* a faulty variant of FreshScore: Math.round(dpsScore * 100) is returned as
\* the score, neither divided back nor clamped
FreshScore_NotScaledBack(order, t) ==
    LET orderDate == parseDate(order.orderDate)
        expectedDispatch == parseDate(order.expectedDispatch)
        deliveryBy == parseDate(order.deliveryBy)
        orderValue == parseOrderValue(order.orderTotal)
    IN  IF orderDate.k = "null" \/ expectedDispatch.k = "null" THEN 0
        ELSE LET weighted1000 ==
                    calculateDispatchDeadlineScore(t, expectedDispatch.t)
                    + 200 * calculateDeliveryPromiseScore(orderDate, deliveryBy)
                    + 100 * calculateOrderAgeScore(t, orderDate.t)
                    + 100 * calculateOrderValueScore(orderValue)
             IN  100 * ((weighted1000 + 5) \div 10)

\* the score computed from the order's fields at time t, in hundredths of a
\* point: Math.max(0, Math.min(100, Math.round(dpsScore * 100) / 100))
FreshScore(order, t) ==
    LET orderDate == parseDate(order.orderDate)
        expectedDispatch == parseDate(order.expectedDispatch)
        deliveryBy == parseDate(order.deliveryBy)
        orderValue == parseOrderValue(order.orderTotal)
    IN  IF orderDate.k = "null" \/ expectedDispatch.k = "null" THEN 0
        ELSE LET weighted1000 ==
                    calculateDispatchDeadlineScore(t, expectedDispatch.t)
                    + 200 * calculateDeliveryPromiseScore(orderDate, deliveryBy)
                    + 100 * calculateOrderAgeScore(t, orderDate.t)
                    + 100 * calculateOrderValueScore(orderValue)
             IN  Max2(0, Min2(100 * 100, (weighted1000 + 5) \div 10))

\* getCacheKey: order number and hour bucket
getCacheKey(order, t) == <<order.orderNumber, t \div MinutesPerHour>>

\* a faulty variant: an entry exactly five minutes old still counts as live
CacheHit_AtExpiry(order, cache, t) ==
    /\ getCacheKey(order, t) \in DOMAIN cache
    /\ t - cache[getCacheKey(order, t)].timestamp <= CacheExpiryMinutes

\* the cache lookup of calculateDPS: a live entry under the key
CacheHit(order, cache, t) ==
    /\ getCacheKey(order, t) \in DOMAIN cache
    /\ t - cache[getCacheKey(order, t)].timestamp < CacheExpiryMinutes

\* calculateDPS: the returned score and the cache afterwards
calculateDPS(order, cache, t) ==
    IF ~validateOrderForDPS(order) THEN [score |-> 0, cache |-> cache]
    ELSE IF CacheHit(order, cache, t)
    THEN [score |-> cache[getCacheKey(order, t)].score, cache |-> cache]
    ELSE IF parseDate(order.orderDate).k = "null"
            \/ parseDate(order.expectedDispatch).k = "null"
    THEN [score |-> 0, cache |-> cache]
    ELSE [score |-> FreshScore(order, t),
          cache |-> MapSet(cache, getCacheKey(order, t),
                           [score |-> FreshScore(order, t), timestamp |-> t])]

isOverdue(order, t) ==
    /\ parseDate(order.expectedDispatch).k # "null"
    /\ t > parseDate(order.expectedDispatch).t

getUrgencyLevel(dpsScore) ==
    IF dpsScore >= 80 * 100 THEN "critical"
    ELSE IF dpsScore >= 60 * 100 THEN "high"
    ELSE IF dpsScore >= 40 * 100 THEN "medium"
    ELSE IF dpsScore >= 20 * 100 THEN "low"
    ELSE "normal"

\* getTimeToDispatch: the text, as its form and the two numbers it shows
\* ("Unknown", "OVERDUE", "<a>m", "<a>h <b>m" or "<a>d <b>h")
getTimeToDispatch(order, t) ==
    LET expectedDispatch == parseDate(order.expectedDispatch)
        diff == expectedDispatch.t - t
        diffHours == diff \div MinutesPerHour
        diffMinutes == diff % MinutesPerHour
    IN  IF expectedDispatch.k = "null" THEN [form |-> "Unknown", a |-> 0, b |-> 0]
        ELSE IF diff <= 0 THEN [form |-> "OVERDUE", a |-> 0, b |-> 0]
        ELSE IF diffHours <= 0 THEN [form |-> "m", a |-> diffMinutes, b |-> 0]
        ELSE IF diffHours < 24
        THEN [form |-> "h m", a |-> diffHours, b |-> diffMinutes]
        ELSE [form |-> "d h", a |-> diffHours \div 24, b |-> diffHours % 24]

\* getDispatchCountdown, in minutes
getDispatchCountdown(order, t) ==
    IF parseDate(order.expectedDispatch).k = "null" THEN 0
    ELSE Max2(0, parseDate(order.expectedDispatch).t - t)

\* a faulty variant of Slice: the end index is taken inclusively
Slice_Inclusive(s, count) ==
    SubSeq(s, 1, IF count < 0 THEN Max2(0, Len(s) + count + 1)
                 ELSE Min2(count + 1, Len(s)))

\* Array.prototype.slice(0, count); a negative count is taken from the end
Slice(s, count) ==
    SubSeq(s, 1, IF count < 0 THEN Max2(0, Len(s) + count)
                 ELSE Min2(count, Len(s)))

\* Array.prototype.indexOf of the element at position i, zero-based (the
\* entries of a ranking are distinct objects with distinct field values)
IndexOf(s, i) == (CHOOSE k \in 1..i : s[k] = s[i] /\ \A j \in 1..(k - 1) : s[j] # s[i]) - 1

\* getTopPriorityOrders(count): the returned list
getTopPriorityOrders(ranking, count, t) ==
    IF Len(ranking) = 0 THEN <<>>
    ELSE [i \in 1..Len(Slice(ranking, count)) |->
            [field \in DOMAIN ranking[i]
                        \cup {"priorityRank", "urgencyLevel", "timeToDispatch",
                              "dispatchCountdown"} |->
                CASE field = "priorityRank" -> IndexOf(ranking, i) + 1
                  [] field = "urgencyLevel" -> getUrgencyLevel(ranking[i].dpsScore)
                  [] field = "timeToDispatch" -> getTimeToDispatch(ranking[i], t)
                  [] field = "dispatchCountdown" ->
                        getDispatchCountdown(ranking[i], t)
                  [] OTHER -> ranking[i][field]]]

(***************************************************************************)
(* DispatchPriorityQueue: the queue                                        *)
(***************************************************************************)
HasScore(order) == "dpsScore" \in DOMAIN order

\* the record updateQueue puts into the ranking for a rescored order
Rescored(order, dpsScore, t) ==
    [orderNumber |-> order.orderNumber, orderDate |-> order.orderDate,
     expectedDispatch |-> order.expectedDispatch,
     deliveryBy |-> order.deliveryBy, orderTotal |-> order.orderTotal,
     dpsScore |-> dpsScore, isOverdue |-> isOverdue(order, t),
     lastDPSCalculation |-> IsoAt(t)]

\* this.orders.map(...) of updateQueue, left to right: the mapped records,
\* the cache afterwards and the order numbers calculateDPS was invoked for
RECURSIVE ScoreOrders(_, _, _, _)
ScoreOrders(orders, dirty, cache, t) ==
    IF orders = <<>>
    THEN [updated |-> <<>>, cache |-> cache, scored |-> <<>>]
    ELSE LET before == ScoreOrders(SubSeq(orders, 1, Len(orders) - 1),
                                   dirty, cache, t)
             order == orders[Len(orders)]
             result == calculateDPS(order, before.cache, t)
         IN  IF order.orderNumber \in dirty \/ ~HasScore(order)
             THEN [updated |-> Append(before.updated,
                                      Rescored(order, result.score, t)),
                   cache |-> result.cache,
                   scored |-> Append(before.scored, order.orderNumber)]
             ELSE [updated |-> Append(before.updated, order),
                   cache |-> before.cache,
                   scored |-> before.scored]

BoolNum(b) == IF b THEN 1 ELSE 0
\* a Date (or null) in arithmetic
DateNum(d) == IF d.k = "date" THEN d.t ELSE 0

\* a faulty variant: the lower order value first
CompareWrongWay(a, b) ==
    IF b.dpsScore # a.dpsScore THEN b.dpsScore - a.dpsScore
    ELSE IF a.isOverdue # b.isOverdue
    THEN BoolNum(b.isOverdue) - BoolNum(a.isOverdue)
    ELSE IF parseOrderValue(b.orderTotal) # parseOrderValue(a.orderTotal)
    THEN parseOrderValue(a.orderTotal) - parseOrderValue(b.orderTotal)
    ELSE DateNum(parseDate(a.orderDate)) - DateNum(parseDate(b.orderDate))

\* the comparator of updateQueue: negative puts a first
CompareOrders(a, b) ==
    IF b.dpsScore # a.dpsScore THEN b.dpsScore - a.dpsScore
    ELSE IF a.isOverdue # b.isOverdue
    THEN BoolNum(b.isOverdue) - BoolNum(a.isOverdue)
    ELSE IF parseOrderValue(b.orderTotal) # parseOrderValue(a.orderTotal)
    THEN parseOrderValue(b.orderTotal) - parseOrderValue(a.orderTotal)
    ELSE DateNum(parseDate(a.orderDate)) - DateNum(parseDate(b.orderDate))

\* Array.prototype.sort: stable, so an element goes before the first one
\* that the comparator puts after it
InsertOrdered(sorted, x) ==
    LET after == {i \in 1..Len(sorted) : CompareOrders(sorted[i], x) > 0}
        k == IF after = {} THEN Len(sorted) + 1
             ELSE CHOOSE i \in after : \A j \in after : i <= j
    IN  SubSeq(sorted, 1, k - 1) \o <<x>> \o SubSeq(sorted, k, Len(sorted))

RECURSIVE SortOrders(_)
SortOrders(s) ==
    IF s = <<>> THEN <<>>
    ELSE InsertOrdered(SortOrders(SubSeq(s, 1, Len(s) - 1)), s[Len(s)])

OrderNumbersOf(orders) == {orders[i].orderNumber : i \in 1..Len(orders)}

NoOrders == [given |-> FALSE, orders |-> <<>>]
GivenOrders(orders) == [given |-> TRUE, orders |-> orders]

\* a faulty variant: the ranking is always recomputed
NothingToDo_Never(dirty, ranking) == FALSE

\* the test before the recomputation: nothing dirty and a ranking to return
NothingToDo(dirty, ranking) == dirty = {} /\ Len(ranking) > 0

\* what queueCall records of a call
QueueCall(op, arg, scored, returned) ==
    [op |-> op, arg |-> arg, scored |-> scored, returned |-> returned]

\* an array element that is null: reading its orderNumber is a TypeError
NullOrder == [k |-> "null"]

HasNull(orders) == \E i \in 1..Len(orders) : orders[i] = NullOrder

\* a faulty variant: the flag is reset only when the call runs to its end
isCalculatingAfter_NotOnReturn(outcome) == outcome = "early return"

\* finally { this.isCalculating = false } runs after the early return, after
\* the completed computation and after the rethrown error alike
isCalculatingAfter(outcome) == FALSE

\* updateQueue(orders = null); an array, even an empty one, is truthy.
\* A call that finds isCalculating set returns before the try block.
UpdateQueue(arg) ==
    /\ UNCHANGED notQueueVars
    /\ UNCHANGED now
    /\ queueOps < MaxQueueOps /\ queueOps' = queueOps + 1
    /\ IF isCalculating
       THEN /\ queueCall' = QueueCall("updateQueue", arg, <<>>, priorityQueue)
            /\ UNCHANGED <<qOrders, priorityQueue, dirtyOrders,
                           calculationCache, lastCalculation,
                           totalCalculations, isCalculating>>
       ELSE IF arg.given /\ HasNull(arg.orders)
       THEN \* orders.map(order => order.orderNumber) throws after
            \* this.orders was assigned
            /\ qOrders' = arg.orders
            /\ isCalculating' = isCalculatingAfter("threw")
            /\ queueCall' = QueueCall("updateQueue threw", arg, <<>>, <<>>)
            /\ UNCHANGED <<priorityQueue, dirtyOrders, calculationCache,
                           lastCalculation, totalCalculations>>
       ELSE IF ~arg.given /\ ~NothingToDo(dirtyOrders, priorityQueue)
               /\ HasNull(qOrders)
       THEN \* this.orders.map(...) throws on the stored null element
            /\ isCalculating' = isCalculatingAfter("threw")
            /\ queueCall' = QueueCall("updateQueue threw", arg, <<>>, <<>>)
            /\ UNCHANGED <<qOrders, priorityQueue, dirtyOrders,
                           calculationCache, lastCalculation,
                           totalCalculations>>
       ELSE LET orders == IF arg.given THEN arg.orders ELSE qOrders
                dirty == IF arg.given THEN OrderNumbersOf(arg.orders)
                         ELSE dirtyOrders
                mapped == ScoreOrders(orders, dirty, calculationCache, now)
            IN  /\ qOrders' = orders
                /\ IF NothingToDo(dirty, priorityQueue)
                   THEN /\ dirtyOrders' = dirty
                        /\ isCalculating' = isCalculatingAfter("early return")
                        /\ queueCall' = QueueCall("updateQueue", arg, <<>>,
                                                  priorityQueue)
                        /\ UNCHANGED <<priorityQueue, calculationCache,
                                       lastCalculation, totalCalculations>>
                   ELSE /\ priorityQueue' = SortOrders(mapped.updated)
                        /\ calculationCache' = mapped.cache
                        /\ dirtyOrders' = {}
                        /\ lastCalculation' = DateAt(now)
                        /\ totalCalculations' = totalCalculations + 1
                        /\ isCalculating' = isCalculatingAfter("completed")
                        /\ queueCall' = QueueCall("updateQueue", arg,
                                                  mapped.scored, priorityQueue')

MarkOrderDirty(orderNumber) ==
    /\ UNCHANGED notQueueVars
    /\ queueOps < MaxQueueOps /\ queueOps' = queueOps + 1
    /\ dirtyOrders' = dirtyOrders \cup {orderNumber}
    /\ queueCall' = QueueCall("markOrderDirty", NoOrders, <<>>, <<>>)
    /\ UNCHANGED <<now, qOrders, priorityQueue, calculationCache,
                   isCalculating, lastCalculation, totalCalculations>>

MarkAllOrdersDirty ==
    /\ UNCHANGED notQueueVars
    /\ queueOps < MaxQueueOps /\ queueOps' = queueOps + 1
    /\ dirtyOrders' = OrderNumbersOf(qOrders)
    /\ queueCall' = QueueCall("markAllOrdersDirty", NoOrders, <<>>, <<>>)
    /\ UNCHANGED <<now, qOrders, priorityQueue, calculationCache,
                   isCalculating, lastCalculation, totalCalculations>>

\* the caller edits a scoring input of a loaded order record in place
\* (this.orders is the caller's array)
EditOrder(i, field, value) ==
    /\ UNCHANGED notQueueVars
    /\ queueOps < MaxQueueOps /\ queueOps' = queueOps + 1
    /\ i \in 1..Len(qOrders)
    /\ qOrders[i][field] # value
    /\ qOrders' = [qOrders EXCEPT ![i][field] = value]
    /\ queueCall' = QueueCall("edit", NoOrders, <<>>, <<>>)
    /\ UNCHANGED <<now, priorityQueue, dirtyOrders, calculationCache,
                   isCalculating, lastCalculation, totalCalculations>>

ClearCache ==
    /\ UNCHANGED notQueueVars
    /\ queueOps < MaxQueueOps /\ queueOps' = queueOps + 1
    /\ calculationCache # EmptyMap
    /\ calculationCache' = EmptyMap
    /\ queueCall' = QueueCall("clearCache", NoOrders, <<>>, <<>>)
    /\ UNCHANGED <<now, qOrders, priorityQueue, dirtyOrders, isCalculating,
                   lastCalculation, totalCalculations>>

\* the periodic sweep: entries older than cacheExpiry are deleted
SweepCache ==
    /\ UNCHANGED notQueueVars
    /\ \E key \in DOMAIN calculationCache :
            now - calculationCache[key].timestamp > CacheExpiryMinutes
    /\ calculationCache' =
            [key \in {k \in DOMAIN calculationCache :
                        ~(now - calculationCache[k].timestamp > CacheExpiryMinutes)}
                |-> calculationCache[key]]
    /\ queueCall' = QueueCall("sweep", NoOrders, <<>>, <<>>)
    /\ UNCHANGED <<now, qOrders, priorityQueue, dirtyOrders, isCalculating,
                   lastCalculation, totalCalculations, queueOps>>

QueueTick ==
    /\ UNCHANGED notQueueVars
    /\ \E start \in QueueStartTimes :
            start <= now /\ now + QueueTickMinutes <= start + MaxElapsed
    /\ now' = now + QueueTickMinutes
    /\ queueCall' = QueueCall("tick", NoOrders, <<>>, <<>>)
    /\ UNCHANGED <<qOrders, priorityQueue, dirtyOrders, calculationCache,
                   isCalculating, lastCalculation, totalCalculations, queueOps>>

\* the queue after its constructor
QueueConstructed ==
    /\ qOrders = <<>>
    /\ priorityQueue = <<>>
    /\ dirtyOrders = {}
    /\ calculationCache = EmptyMap
    /\ isCalculating = FALSE
    /\ lastCalculation = NullDate
    /\ totalCalculations = 0
    /\ queueOps = 0
    /\ queueCall = QueueCall("constructor", NoOrders, <<>>, <<>>)

\* a faulty variant of GetTopPriorityOrders: an empty ranking makes the call
\* run a recomputation of its own
GetTopPriorityOrders_Recomputes(count) ==
    /\ UNCHANGED notQueueVars
    /\ queueOps < MaxQueueOps /\ queueOps' = queueOps + 1
    /\ queueCall' = QueueCall("getTopPriorityOrders", [count |-> count], <<>>,
                              getTopPriorityOrders(priorityQueue, count, now))
    /\ lastCalculation' = IF Len(priorityQueue) = 0 THEN DateAt(now)
                          ELSE lastCalculation
    /\ totalCalculations' = IF Len(priorityQueue) = 0
                            THEN totalCalculations + 1 ELSE totalCalculations
    /\ UNCHANGED <<now, qOrders, priorityQueue, dirtyOrders, calculationCache,
                   isCalculating>>

\* a call of getTopPriorityOrders(count)
GetTopPriorityOrders(count) ==
    /\ UNCHANGED notQueueVars
    /\ queueOps < MaxQueueOps /\ queueOps' = queueOps + 1
    /\ queueCall' = QueueCall("getTopPriorityOrders", [count |-> count], <<>>,
                              getTopPriorityOrders(priorityQueue, count, now))
    /\ UNCHANGED <<now, qOrders, priorityQueue, dirtyOrders, calculationCache,
                   isCalculating, lastCalculation, totalCalculations>>

\* the counts getTopPriorityOrders is called with (5 is the default)
TopCounts == {-1, 0, 1, 2, 5}

\* the order records calculateDPS is called with directly: every combination
\* of these field values, and a record that has an order number only
ScoreNumbers == {"S1"}
ScoreOrderDates == {DateAt(-1560), DateAt(-60), BadDate, NullDate}
ScoreDispatches == {DateAt(-60), DateAt(4000), BadDate, NullDate}
ScoreDeliveries == {NullDate, DateAt(1440), DateAt(12000), BadDate}
ScoreTotals == {Num(1500), Num(50), Num(-50), NonNumeric, NullNum}
ScoreInputs ==
    {QOrder(o, orderDate, expectedDispatch, deliveryBy, orderTotal) :
        o \in ScoreNumbers, orderDate \in ScoreOrderDates,
        expectedDispatch \in ScoreDispatches, deliveryBy \in ScoreDeliveries,
        orderTotal \in ScoreTotals}
    \cup {[orderNumber |-> "S1"]}

\* lists of such records updateQueue(orders) is called with
ScoreLoads ==
    {<<QOrder("S1", DateAt(-60), DateAt(4000), DateAt(12000), Num(-50)),
       QOrder("S2", BadDate, DateAt(-60), NullDate, Num(1500)),
       QOrder("S3", DateAt(-1560), DateAt(-60), DateAt(1440), NonNumeric)>>,
     <<QOrder("S1", DateAt(-1560), BadDate, BadDate, Num(1500)),
       QOrder("S2", DateAt(-1560), DateAt(-60), DateAt(1440), Num(1500))>>}

\* a direct call of calculateDPS(order)
CalculateDPS(order) ==
    /\ UNCHANGED notQueueVars
    /\ queueOps < MaxScoreCalls /\ queueOps' = queueOps + 1
    /\ calculationCache' = calculateDPS(order, calculationCache, now).cache
    /\ queueCall' = QueueCall("calculateDPS", GivenOrders(<<order>>), <<>>,
                              calculateDPS(order, calculationCache, now).score)
    /\ UNCHANGED <<now, qOrders, priorityQueue, dirtyOrders, isCalculating,
                   lastCalculation, totalCalculations>>

QueueNext ==
    \/ \E orders \in LoadChoices : UpdateQueue(GivenOrders(orders))
    \/ UpdateQueue(NoOrders)
    \/ \E o \in QueueOrderNumbers : MarkOrderDirty(o)
    \/ MarkAllOrdersDirty
    \/ \E i \in 1..MaxLoaded, v \in EditedTotals : EditOrder(i, "orderTotal", v)
    \/ \E i \in 1..MaxLoaded, v \in EditedDispatch :
            EditOrder(i, "expectedDispatch", v)
    \/ ClearCache
    \/ SweepCache
    \/ QueueTick

ScoreNext ==
    \/ \E order \in ScoreInputs : CalculateDPS(order)
    \/ \E orders \in ScoreLoads :
            queueOps < MaxScoreCalls /\ UpdateQueue(GivenOrders(orders))
    \/ \E count \in TopCounts :
            queueOps < MaxScoreCalls /\ GetTopPriorityOrders(count)
    \/ queueOps < MaxScoreCalls /\ ClearCache
    \/ SweepCache
    \/ QueueTick

(***************************************************************************)
(* BatchOptimizer: configuration (times in thousandths of a minute)        *)
(***************************************************************************)
basePicking == 3500
batchSetup == 1200
itemPickingReduction == 600
packingEfficiency == 750
criticalUrgencyScore == 85
riskUrgencyScore == 60
maxBatchDelayHours == 2
minTimeSavings == 1500
minEfficiencyGain == 15
maxEfficiencyGain == 45
maxBatchSize == 8
sameCountyBonusPercent == 30
adjacentCountyBonusPercent == 15
batchCacheExpiryMinutes == 5
urgencyTolerance == 15
highValueFloor == 500
premiumValue == 1000
minHybridOrders == 3
topRecommendations == 10
\* the cache key keeps 16 base64 characters, which encode 12 characters
cacheKeyBase64Length == 16

countyAdjacency(county) ==
    CASE county = "Greater London" -> {"Surrey", "Kent", "Essex", "Hertfordshire"}
      [] county = "Surrey" -> {"Greater London", "Kent", "West Sussex",
                               "Hampshire", "Berkshire"}
      [] county = "Kent" -> {"Greater London", "Surrey", "East Sussex"}
      [] county = "Essex" -> {"Greater London", "Hertfordshire", "Suffolk",
                              "Cambridgeshire"}
      [] OTHER -> {}

(***************************************************************************)
(* BatchOptimizer: strings                                                 *)
(***************************************************************************)
\* the characters of order numbers and SKUs, in code-unit order
Alphabet == <<"-", "0", "1", "2", "3", "4", "5", "6", "7", "8", "9",
              "A", "B", "D", "L", "M", "O", "P", "R", "U", "W", "_">>
CharCode(c) == CHOOSE i \in 1..Len(Alphabet) : Alphabet[i] = c

\* the spelling of each order number and SKU of the catalogue
Spelling(str) ==
    CASE str = "A1" -> <<"A", "1">>
      [] str = "A2" -> <<"A", "2">>
      [] str = "A3" -> <<"A", "3">>
      [] str = "ORD-101" -> <<"O", "R", "D", "-", "1", "0", "1">>
      [] str = "ORD-102" -> <<"O", "R", "D", "-", "1", "0", "2">>
      [] str = "ORD-201" -> <<"O", "R", "D", "-", "2", "0", "1">>
      [] str = "ORD-202" -> <<"O", "R", "D", "-", "2", "0", "2">>
      [] str = "ORD-203" -> <<"O", "R", "D", "-", "2", "0", "3">>
      [] str = "ORD-204" -> <<"O", "R", "D", "-", "2", "0", "4">>
      [] str = "ORD-205" -> <<"O", "R", "D", "-", "2", "0", "5">>
      [] str = "ORD-206" -> <<"O", "R", "D", "-", "2", "0", "6">>
      [] str = "ORD-207" -> <<"O", "R", "D", "-", "2", "0", "7">>
      [] str = "ORD-208" -> <<"O", "R", "D", "-", "2", "0", "8">>
      [] str = "ORD-209" -> <<"O", "R", "D", "-", "2", "0", "9">>
      [] str = "ORD-301" -> <<"O", "R", "D", "-", "3", "0", "1">>
      [] str = "ORD-305" -> <<"O", "R", "D", "-", "3", "0", "5">>
      [] str = "ORD-306" -> <<"O", "R", "D", "-", "3", "0", "6">>
      [] str = "ORD-307" -> <<"O", "R", "D", "-", "3", "0", "7">>
      [] str = "ORD-308" -> <<"O", "R", "D", "-", "3", "0", "8">>
      [] str = "ORD-309" -> <<"O", "R", "D", "-", "3", "0", "9">>
      [] str = "ORD-310" -> <<"O", "R", "D", "-", "3", "1", "0">>
      [] str = "ORD-311" -> <<"O", "R", "D", "-", "3", "1", "1">>
      [] str = "ORD-401" -> <<"O", "R", "D", "-", "4", "0", "1">>
      [] str = "ORD-402" -> <<"O", "R", "D", "-", "4", "0", "2">>
      [] str = "ORD-403" -> <<"O", "R", "D", "-", "4", "0", "3">>
      [] str = "ORD-404" -> <<"O", "R", "D", "-", "4", "0", "4">>
      [] str = "ORD-405" -> <<"O", "R", "D", "-", "4", "0", "5">>
      [] str = "ORD-406" -> <<"O", "R", "D", "-", "4", "0", "6">>
      [] str = "ORD-407" -> <<"O", "R", "D", "-", "4", "0", "7">>
      [] str = "ORD-408" -> <<"O", "R", "D", "-", "4", "0", "8">>
      [] str = "ORD-409" -> <<"O", "R", "D", "-", "4", "0", "9">>
      [] str = "ORD-501" -> <<"O", "R", "D", "-", "5", "0", "1">>
      [] str = "ORD-502" -> <<"O", "R", "D", "-", "5", "0", "2">>
      [] str = "ORD-503" -> <<"O", "R", "D", "-", "5", "0", "3">>
      [] str = "ORD-504" -> <<"O", "R", "D", "-", "5", "0", "4">>
      [] str = "ORD-505" -> <<"O", "R", "D", "-", "5", "0", "5">>
      [] str = "ORD-506" -> <<"O", "R", "D", "-", "5", "0", "6">>
      [] str = "ORD-507" -> <<"O", "R", "D", "-", "5", "0", "7">>
      [] str = "ORD-508" -> <<"O", "R", "D", "-", "5", "0", "8">>
      [] str = "ORD-509" -> <<"O", "R", "D", "-", "5", "0", "9">>
      [] str = "ORD-302" -> <<"O", "R", "D", "-", "3", "0", "2">>
      [] str = "ORD-303" -> <<"O", "R", "D", "-", "3", "0", "3">>
      [] str = "ORD-304" -> <<"O", "R", "D", "-", "3", "0", "4">>
      [] str = "WEB-77" -> <<"W", "E", "B", "-", "7", "7">>
      [] str = "LAP-01" -> <<"L", "A", "P", "-", "0", "1">>
      [] str = "LAP-02" -> <<"L", "A", "P", "-", "0", "2">>
      [] str = "MOU-01" -> <<"M", "O", "U", "-", "0", "1">>
      [] str = "" -> <<>>

\* a < b as JavaScript strings
StringLess(a, b) ==
    LET sa == Spelling(a)
        sb == Spelling(b)
        differ == {i \in 1..Min2(Len(sa), Len(sb)) : sa[i] # sb[i]}
    IN  IF differ = {} THEN Len(sa) < Len(sb)
        ELSE LET i == CHOOSE x \in differ : \A y \in differ : x <= y
             IN  CharCode(sa[i]) < CharCode(sb[i])

\* str.startsWith(prefix), prefix given by its characters
StartsWith(str, prefix) ==
    /\ Len(prefix) <= Len(Spelling(str))
    /\ SubSeq(Spelling(str), 1, Len(prefix)) = prefix

\* Array.prototype.sort() of strings
RECURSIVE SortStrings(_)
SortStrings(s) ==
    IF s = <<>> THEN <<>>
    ELSE LET sorted == SortStrings(SubSeq(s, 1, Len(s) - 1))
             x == s[Len(s)]
             after == {i \in 1..Len(sorted) : StringLess(x, sorted[i])}
             k == IF after = {} THEN Len(sorted) + 1
                  ELSE CHOOSE i \in after : \A j \in after : i <= j
         IN  SubSeq(sorted, 1, k - 1) \o <<x>> \o SubSeq(sorted, k, Len(sorted))

\* strs.join('_'), as characters
RECURSIVE JoinStrings(_)
JoinStrings(strs) ==
    IF strs = <<>> THEN <<>>
    ELSE IF Len(strs) = 1 THEN Spelling(strs[1])
    ELSE JoinStrings(SubSeq(strs, 1, Len(strs) - 1))
            \o <<"_">> \o Spelling(strs[Len(strs)])

(***************************************************************************)
(* BatchOptimizer: inputs                                                  *)
(***************************************************************************)
\* an absent product or sku is the empty string
BOrder(orderNumber, sku, county, urgencyScore, value, deliveryEndDate) ==
    [orderNumber |-> orderNumber,
     product |-> IF sku = "" THEN "" ELSE "Laptop",
     sku |-> sku, county |-> county, urgencyScore |-> urgencyScore,
     value |-> value, deliveryEndDate |-> deliveryEndDate]

\* the order records the batch calls are made with
BatchOrder(o) ==
    CASE o = "A1" -> BOrder(o, "LAP-01", "Surrey", 40, 600, DateAt(5000))
      [] o = "A2" -> BOrder(o, "LAP-01", "Surrey", 30, 700, DateAt(5000))
      [] o = "A3" -> BOrder(o, "LAP-01", "Surrey", 50, 200, DateAt(5000))
      [] o = "ORD-101" -> BOrder(o, "LAP-01", "Surrey", 40, 600, DateAt(5000))
      [] o = "ORD-102" -> BOrder(o, "LAP-01", "Surrey", 90, 1200, DateAt(5000))
      [] o = "ORD-201" -> BOrder(o, "LAP-01", "Surrey", 30, 700, DateAt(5000))
      [] o = "ORD-202" -> BOrder(o, "LAP-01", "Surrey", 50, 200, DateAt(5000))
      [] o = "ORD-203" -> BOrder(o, "LAP-01", "Surrey", 20, 100, DateAt(5000))
      [] o = "ORD-204" -> BOrder(o, "LAP-01", "Surrey", 45, 800, DateAt(5000))
      [] o = "ORD-205" -> BOrder(o, "LAP-01", "Surrey", 35, 50, DateAt(5000))
      [] o = "ORD-206" -> BOrder(o, "LAP-01", "Surrey", 55, 1500, NullDate)
      [] o = "ORD-207" -> BOrder(o, "LAP-01", "Surrey", 58, 300, DateAt(5000))
      [] o = "ORD-208" -> BOrder(o, "LAP-01", "Surrey", 10, 900, DateAt(5000))
      [] o = "ORD-209" -> BOrder(o, "LAP-01", "Surrey", 25, 60, DateAt(5000))
      [] o = "ORD-301" -> BOrder(o, "LAP-01", "Surrey", 88, 300, DateAt(5000))
      [] o = "ORD-302" -> BOrder(o, "LAP-02", "Kent", 70, 400, DateAt(5000))
      [] o = "ORD-303" -> BOrder(o, "", "Surrey", 40, 500, DateAt(5000))
      [] o = "ORD-304" -> BOrder(o, "LAP-01", "Surrey", 40, 500, DateAt(-116))
      [] o = "ORD-305" -> BOrder(o, "MOU-01", "Kent", 40, 300, DateAt(5000))
      [] o = "ORD-306" -> BOrder(o, "MOU-01", "Hampshire", 40, 300, DateAt(5000))
      [] o = "ORD-307" -> BOrder(o, "LAP-01", "Kent", 80, 300, DateAt(5000))
      [] o = "ORD-308" -> BOrder(o, "LAP-01", "Kent", 75, 300, DateAt(5000))
      [] o = "ORD-309" -> BOrder(o, "MOU-01", "Surrey", 30, 1000, DateAt(5000))
      [] o = "ORD-310" -> BOrder(o, "MOU-01", "Surrey", 35, 300, DateAt(5000))
      [] o = "ORD-311" -> BOrder(o, "MOU-01", "Surrey", 45, 300, DateAt(5000))
      [] o = "ORD-401" -> BOrder(o, "LAP-01", "Surrey", 20, 300, DateAt(5000))
      [] o = "ORD-402" -> BOrder(o, "LAP-01", "Surrey", 10, 1000, DateAt(5000))
      [] o = "ORD-403" -> BOrder(o, "LAP-01", "Surrey", 15, 300, DateAt(5000))
      [] o = "ORD-404" -> BOrder(o, "LAP-01", "Surrey", 20, 300, DateAt(5000))
      [] o = "ORD-405" -> BOrder(o, "LAP-01", "Surrey", 25, 300, DateAt(5000))
      [] o = "ORD-406" -> BOrder(o, "LAP-01", "Surrey", 30, 300, DateAt(5000))
      [] o = "ORD-407" -> BOrder(o, "LAP-01", "Surrey", 35, 300, DateAt(5000))
      [] o = "ORD-408" -> BOrder(o, "LAP-01", "Kent", 5, 300, DateAt(5000))
      [] o = "ORD-409" -> BOrder(o, "MOU-01", "Kent", 85, 300, DateAt(5000))
      [] o = "ORD-501" -> BOrder(o, "LAP-01", "Surrey", 20, 500, DateAt(5000))
      [] o = "ORD-502" -> BOrder(o, "MOU-01", "Kent", 10, 500, DateAt(5000))
      [] o = "ORD-503" -> BOrder(o, "LAP-01", "Kent", 30, 600, DateAt(5000))
      [] o = "ORD-504" -> BOrder(o, "MOU-01", "Surrey", 40, 700, DateAt(5000))
      [] o = "ORD-505" -> BOrder(o, "LAP-02", "Hampshire", 50, 800, DateAt(5000))
      [] o = "ORD-506" -> BOrder(o, "LAP-01", "Surrey", 55, 900, DateAt(5000))
      [] o = "ORD-507" -> BOrder(o, "MOU-01", "Hampshire", 59, 900, DateAt(5000))
      [] o = "ORD-508" -> BOrder(o, "LAP-02", "Kent", 5, 700, DateAt(5000))
      [] o = "ORD-509" -> BOrder(o, "LAP-01", "Surrey", 15, 5000, DateAt(5000))
      [] o = "WEB-77" -> BOrder(o, "MOU-01", "Hampshire", 40, 650, DateAt(5000))
      \* order ORD-202 after its urgency, SKU, county and value were edited
      [] o = "ORD-202 (edited)" ->
            BOrder("ORD-202", "MOU-01", "Kent", 90, 1200, DateAt(5000))

TargetChoices == {"ORD-101", "ORD-102", "ORD-201", "ORD-303"}

PoolChoices ==
    {<<>>,
     <<"ORD-201", "ORD-202">>,
     <<"ORD-201", "ORD-202 (edited)">>,
     <<"ORD-102", "ORD-201", "ORD-202">>,
     <<"ORD-101", "ORD-201", "ORD-202">>,
     <<"ORD-201", "ORD-201", "ORD-202">>,
     <<"ORD-201", "ORD-202", "ORD-203", "ORD-204", "ORD-205", "ORD-206",
       "ORD-207", "ORD-208", "ORD-209">>,
     <<"ORD-301", "ORD-303">>,
     <<"ORD-302", "ORD-304", "WEB-77", "ORD-201", "ORD-301", "ORD-305",
       "ORD-306">>}

PoolOrders(pool) == [i \in 1..Len(pool) |-> BatchOrder(pool[i])]

\* calls on larger pools: <<target, pool>>
MixedPool ==
    <<"ORD-201", "ORD-202", "ORD-203", "ORD-307", "ORD-308", "ORD-309",
      "ORD-310", "ORD-311">>

CalmPool ==
    <<"ORD-402", "ORD-403", "ORD-404", "ORD-405", "ORD-406", "ORD-407",
      "ORD-408", "ORD-409">>

AnalysisCalls ==
    {<<"ORD-101", MixedPool>>, <<"ORD-102", MixedPool>>,
     <<"ORD-201", MixedPool>>, <<"ORD-401", CalmPool>>,
     <<"ORD-409", <<"ORD-401">> \o SubSeq(CalmPool, 1, 7)>>}

(***************************************************************************)
(* BatchOptimizer: analysis                                                *)
(***************************************************************************)
NumbersOf(orders) == [i \in 1..Len(orders) |-> orders[i].orderNumber]

validateInputs(targetOrder, availableOrders) ==
    targetOrder.orderNumber # "" /\ Len(availableOrders) > 0

\* btoa(orderIds.join('_')).slice(0, 16): the characters the key encodes
generateCacheKey(targetOrder, availableOrders) ==
    LET orderIds == SortStrings(<<targetOrder.orderNumber>>
                                    \o NumbersOf(availableOrders))
        joined == JoinStrings(orderIds)
    IN  SubSeq(joined, 1, Min2(Len(joined), (cacheKeyBase64Length \div 4) * 3))

\* delayMinutes > maxBatchDelayHours * 60; an invalid date gives NaN, and
\* NaN > x is false
DelayedTooLong(order, t) ==
    /\ order.deliveryEndDate.k = "date"
    /\ Max2(0, t - order.deliveryEndDate.t) > maxBatchDelayHours * MinutesPerHour

\* the test of filterEligibleOrders
Eligible(targetOrder, order, t) ==
    /\ order.orderNumber # targetOrder.orderNumber
    /\ ~(order.urgencyScore > criticalUrgencyScore)
    /\ ~DelayedTooLong(order, t)
    /\ order.product # "" /\ order.sku # ""

filterEligibleOrders(targetOrder, availableOrders, t) ==
    SelectSeq(availableOrders, LAMBDA order : Eligible(targetOrder, order, t))

\* [targetOrder, ...matches].slice(0, maxBatchSize)
BatchOf(targetOrder, matches) ==
    SubSeq(<<targetOrder>> \o matches, 1,
           Min2(1 + Len(matches), maxBatchSize))

RECURSIVE SumOf(_, _)
SumOf(orders, field) ==
    IF orders = <<>> THEN 0
    ELSE orders[1][field] + SumOf(Tail(orders), field)

MaxUrgency(orders) ==
    CHOOSE u \in {orders[i].urgencyScore : i \in 1..Len(orders)} :
        \A i \in 1..Len(orders) : orders[i].urgencyScore <= u

\* a faulty variant: an order of exactly 1000 counts as high-value
calculateBatchRiskScore_FromThousand(batchOrders) ==
    Min2(MaxUrgency(batchOrders)
            + (IF Len(batchOrders) > 5 THEN 20 ELSE 0)
            + (IF \E i \in 1..Len(batchOrders) :
                        batchOrders[i].value >= premiumValue
               THEN 10 ELSE 0),
         100)

\* calculateBatchRiskScore, in hundredths
calculateBatchRiskScore(batchOrders) ==
    Min2(MaxUrgency(batchOrders)
            + (IF Len(batchOrders) > 5 THEN 20 ELSE 0)
            + (IF \E i \in 1..Len(batchOrders) :
                        batchOrders[i].value > premiumValue
               THEN 10 ELSE 0),
         100)

\* what every calculate...BatchEfficiency returns: timeSavings before the
\* clamp at 0 is 'saved'; efficiencyGain is timeSavings / baseTime * 100
Efficiency(batchOrders, saved) ==
    [baseTime |-> Len(batchOrders) * basePicking,
     timeSavings |-> Max2(saved, 0),
     riskScore |-> calculateBatchRiskScore(batchOrders)]

\* a faulty variant: the set-up time of the batch is not charged
calculateSKUBatchEfficiency_NoSetup(batchOrders, multiplierTenths) ==
    LET n == Len(batchOrders)
        pickingReduction == ((n - 1) * itemPickingReduction * multiplierTenths) \div 10
        packing == (n * packingEfficiency * multiplierTenths) \div 10
    IN  Efficiency(batchOrders, pickingReduction + packing)

\* efficiencyMultiplier is given in tenths
calculateSKUBatchEfficiency(batchOrders, multiplierTenths) ==
    LET n == Len(batchOrders)
        pickingReduction == ((n - 1) * itemPickingReduction * multiplierTenths) \div 10
        packing == (n * packingEfficiency * multiplierTenths) \div 10
    IN  Efficiency(batchOrders, pickingReduction + packing - batchSetup)

calculateGeographicBatchEfficiency(batchOrders, geoType) ==
    LET travelReduction == IF geoType = "same_county"
                           THEN sameCountyBonusPercent
                           ELSE adjacentCountyBonusPercent
    IN  Efficiency(batchOrders,
            (Len(batchOrders) * basePicking * travelReduction) \div 100
                - batchSetup)

\* baseTime * (0.15 - avgUrgency / 100 * 0.2) - batchSetup
calculateUrgencyBatchEfficiency(batchOrders) ==
    Efficiency(batchOrders,
        (Len(batchOrders) * basePicking * 15) \div 100
            - (basePicking * SumOf(batchOrders, "urgencyScore")) \div 500
            - batchSetup)

calculateValueBatchEfficiency(batchOrders) ==
    LET premiumHandling ==
            IF SumOf(batchOrders, "value") > premiumValue * Len(batchOrders)
            THEN 500 ELSE 200
    IN  Efficiency(batchOrders,
            (Len(batchOrders) * basePicking * 10) \div 100
                - batchSetup - premiumHandling)

\* factors sku (0.25) and geographic (0.15)
calculateHybridBatchEfficiency(batchOrders) ==
    Efficiency(batchOrders,
        (Len(batchOrders) * basePicking * 40) \div 100 - batchSetup)

Batch(type, orders, efficiency) ==
    [type |-> type, orders |-> orders, efficiency |-> efficiency]

\* one candidate batch: pushed when there are matches and the savings
\* reach the threshold
Candidate(type, targetOrder, matches, efficiency, threshold) ==
    IF Len(matches) > 0 /\ efficiency.timeSavings >= threshold
    THEN <<Batch(type, BatchOf(targetOrder, matches), efficiency)>>
    ELSE <<>>

\* targetSKU.substring(0, Math.min(targetSKU.length - 2, 6))
SkuBasePattern(targetSKU) ==
    SubSeq(Spelling(targetSKU), 1,
           Max2(0, Min2(Len(Spelling(targetSKU)) - 2, 6)))

findSimilarSKUs(targetSKU, orders) ==
    SelectSeq(orders, LAMBDA order :
        StartsWith(order.sku, SkuBasePattern(targetSKU))
            /\ order.sku # targetSKU)

analyzeSKUBatches(targetOrder, eligibleOrders) ==
    LET exactMatches == SelectSeq(eligibleOrders,
                            LAMBDA order : order.sku = targetOrder.sku)
        similarSKUs == findSimilarSKUs(targetOrder.sku, eligibleOrders)
    IN  Candidate("sku_exact", targetOrder, exactMatches,
            calculateSKUBatchEfficiency(BatchOf(targetOrder, exactMatches), 10),
            minTimeSavings)
        \o Candidate("sku_similar", targetOrder, similarSKUs,
            calculateSKUBatchEfficiency(BatchOf(targetOrder, similarSKUs), 7),
            minTimeSavings)

analyzeGeographicBatches(targetOrder, eligibleOrders) ==
    LET sameCountyOrders == SelectSeq(eligibleOrders,
                                LAMBDA order : order.county = targetOrder.county)
        adjacentOrders == SelectSeq(eligibleOrders,
                                LAMBDA order :
                                    order.county \in countyAdjacency(targetOrder.county))
    IN  Candidate("geographic_same", targetOrder, sameCountyOrders,
            calculateGeographicBatchEfficiency(
                BatchOf(targetOrder, sameCountyOrders), "same_county"),
            minTimeSavings)
        \o Candidate("geographic_adjacent", targetOrder, adjacentOrders,
            calculateGeographicBatchEfficiency(
                BatchOf(targetOrder, adjacentOrders), "adjacent_county"),
            (minTimeSavings * 8) \div 10)

Distance(a, b) == IF a >= b THEN a - b ELSE b - a

analyzeUrgencyBatches(targetOrder, eligibleOrders) ==
    LET similarUrgencyOrders ==
            SelectSeq(eligibleOrders, LAMBDA order :
                /\ Distance(order.urgencyScore, targetOrder.urgencyScore)
                        <= urgencyTolerance
                /\ order.urgencyScore < riskUrgencyScore)
    IN  Candidate("urgency_similar", targetOrder, similarUrgencyOrders,
            calculateUrgencyBatchEfficiency(
                BatchOf(targetOrder, similarUrgencyOrders)),
            minTimeSavings)

analyzeValueBatches(targetOrder, eligibleOrders) ==
    LET highValueOrders ==
            SelectSeq(eligibleOrders, LAMBDA order :
                order.value >= highValueFloor
                    /\ order.urgencyScore < riskUrgencyScore)
    IN  IF targetOrder.value >= highValueFloor
        THEN Candidate("value_high", targetOrder, highValueOrders,
                calculateValueBatchEfficiency(
                    BatchOf(targetOrder, highValueOrders)),
                minTimeSavings)
        ELSE <<>>

\* orders2.filter(order => orderNumbers1.has(order.orderNumber))
findOrderIntersection(orders1, orders2) ==
    SelectSeq(orders2, LAMBDA order :
        \E i \in 1..Len(orders1) : orders1[i].orderNumber = order.orderNumber)

RECURSIVE Flatten(_)
Flatten(seqs) ==
    IF seqs = <<>> THEN <<>> ELSE seqs[1] \o Flatten(Tail(seqs))

\* skuBatches.forEach(skuBatch => geoBatches.forEach(geoBatch => ...))
createHybridBatches(skuBatches, geoBatches) ==
    Flatten([i \in 1..(Len(skuBatches) * Len(geoBatches)) |->
        LET skuBatch == skuBatches[((i - 1) \div Len(geoBatches)) + 1]
            geoBatch == geoBatches[((i - 1) % Len(geoBatches)) + 1]
            intersectionOrders ==
                findOrderIntersection(skuBatch.orders, geoBatch.orders)
            efficiency == calculateHybridBatchEfficiency(intersectionOrders)
        IN  IF Len(intersectionOrders) >= minHybridOrders
               /\ efficiency.timeSavings >= (minTimeSavings * 12) \div 10
            THEN <<Batch("hybrid_sku_geo", intersectionOrders, efficiency)>>
            ELSE <<>>])

Sign(x) == IF x > 0 THEN 1 ELSE IF x < 0 THEN -1 ELSE 0

\* a faulty variant: among near-equal batches the riskier one comes first
CompareBatches_RiskierFirst(a, b) ==
    LET gainCross == b.efficiency.timeSavings * Len(a.orders)
                        - a.efficiency.timeSavings * Len(b.orders)
        timeDiff == b.efficiency.timeSavings - a.efficiency.timeSavings
    IN  IF Distance(100 * gainCross, 0)
                > 5 * basePicking * Len(a.orders) * Len(b.orders)
        THEN Sign(gainCross)
        ELSE IF Distance(timeDiff, 0) > 1000 THEN Sign(timeDiff)
        ELSE Sign(b.efficiency.riskScore - a.efficiency.riskScore)

\* the comparator of rankBatchesByEfficiency; with baseTime = basePicking *
\* (number of orders), the difference of the efficiency gains is
\* 100 * gainCross / (basePicking * Len(a.orders) * Len(b.orders))
CompareBatches(a, b) ==
    LET gainCross == b.efficiency.timeSavings * Len(a.orders)
                        - a.efficiency.timeSavings * Len(b.orders)
        timeDiff == b.efficiency.timeSavings - a.efficiency.timeSavings
    IN  IF Distance(100 * gainCross, 0)
                > 5 * basePicking * Len(a.orders) * Len(b.orders)
        THEN Sign(gainCross)
        ELSE IF Distance(timeDiff, 0) > 1000 THEN Sign(timeDiff)
        ELSE Sign(a.efficiency.riskScore - b.efficiency.riskScore)

RECURSIVE SortBatches(_)
SortBatches(s) ==
    IF s = <<>> THEN <<>>
    ELSE LET sorted == SortBatches(SubSeq(s, 1, Len(s) - 1))
             x == s[Len(s)]
             after == {i \in 1..Len(sorted) : CompareBatches(sorted[i], x) > 0}
             k == IF after = {} THEN Len(sorted) + 1
                  ELSE CHOOSE i \in after : \A j \in after : i <= j
         IN  SubSeq(sorted, 1, k - 1) \o <<x>> \o SubSeq(sorted, k, Len(sorted))

\* whether the comparator orders the batches consistently: a before-or-tied
\* b and b before-or-tied c give a before-or-tied c (the tolerances can
\* break this)
ConsistentComparator(s) ==
    \A i, j, k \in 1..Len(s) :
        CompareBatches(s[i], s[j]) <= 0 /\ CompareBatches(s[j], s[k]) <= 0
            => CompareBatches(s[i], s[k]) <= 0

\* every order the batches can be put in
Arrangements(s) ==
    {[i \in 1..Len(s) |-> s[p[i]]] :
        p \in {q \in [1..Len(s) -> 1..Len(s)] :
                    \A i, j \in 1..Len(s) : q[i] = q[j] => i = j}}

\* Array.prototype.sort(comparator): the stable sorted order when the
\* comparator is consistent; otherwise the order is left to the engine
SortOutcomes(s) ==
    IF ConsistentComparator(s) THEN {SortBatches(s)} ELSE Arrangements(s)

\* a faulty variant: the batches under the minimum savings are kept
rankBatchesByEfficiency_Unfiltered(batches) ==
    {SubSeq(sorted, 1, Min2(Len(sorted), topRecommendations)) :
        sorted \in SortOutcomes(batches)}

\* the lists rankBatchesByEfficiency can return
rankBatchesByEfficiency(batches) ==
    LET kept == SelectSeq(batches, LAMBDA batch :
                    batch.efficiency.timeSavings >= minTimeSavings)
    IN  {SubSeq(sorted, 1, Min2(Len(sorted), topRecommendations)) :
            sorted \in SortOutcomes(kept)}

\* [...skuBatches, ...geographicBatches, ...urgencyBatches, ...valueBatches,
\* ...hybridBatches]
allBatches(targetOrder, eligibleOrders) ==
    LET skuBatches == analyzeSKUBatches(targetOrder, eligibleOrders)
        geographicBatches == analyzeGeographicBatches(targetOrder, eligibleOrders)
        urgencyBatches == analyzeUrgencyBatches(targetOrder, eligibleOrders)
        valueBatches == analyzeValueBatches(targetOrder, eligibleOrders)
        hybridBatches == createHybridBatches(skuBatches, geographicBatches)
    IN  skuBatches \o geographicBatches \o urgencyBatches \o valueBatches
            \o hybridBatches

performComprehensiveBatchAnalysis(targetOrder, eligibleOrders) ==
    rankBatchesByEfficiency(allBatches(targetOrder, eligibleOrders))

\* the fields generateBatchRecommendations copies of one order
Member(order) ==
    [orderNumber |-> order.orderNumber, product |-> order.product,
     sku |-> order.sku, value |-> order.value,
     urgencyScore |-> order.urgencyScore, county |-> order.county]

generateBatchRecommendations(rankedBatches) ==
    [index \in 1..Len(rankedBatches) |->
        [rank |-> index,
         type |-> rankedBatches[index].type,
         orders |-> [i \in 1..Len(rankedBatches[index].orders) |->
                        Member(rankedBatches[index].orders[i])],
         timeSavings |-> rankedBatches[index].efficiency.timeSavings,
         baseTime |-> rankedBatches[index].efficiency.baseTime,
         riskScore |-> rankedBatches[index].efficiency.riskScore]]

BatchResult(success, targetOrder, reason, cacheStatus, eligible, recommendations, t) ==
    [success |-> success, targetOrder |-> targetOrder, reason |-> reason,
     cacheStatus |-> cacheStatus, totalEligibleOrders |-> eligible,
     batchOpportunities |-> recommendations, timestamp |-> IsoAt(t)]

\* a result without the properties targetOrder and totalEligibleOrders
createEmptyResult(reason, t) ==
    BatchResult(FALSE, "", reason, "none", 0, <<>>, t)

createErrorResult(t) ==
    BatchResult(FALSE, "", "error", "error", 0, <<>>, t)

\* the results findBatchOpportunities can compute when the key is not
\* cached (more than one only where the sort is left to the engine)
ComputedResults(targetOrder, availableOrders, t) ==
    LET eligibleOrders == filterEligibleOrders(targetOrder, availableOrders, t)
    IN  IF Len(eligibleOrders) = 0
        THEN {createEmptyResult("No eligible orders found for batching", t)}
        ELSE IF targetOrder.sku = ""
        THEN {createErrorResult(t)}
        ELSE {BatchResult(TRUE, targetOrder.orderNumber, "", "miss",
                    Len(eligibleOrders),
                    generateBatchRecommendations(rankedBatches), t) :
                rankedBatches \in performComprehensiveBatchAnalysis(
                                    targetOrder, eligibleOrders)}

(***************************************************************************)
(* BatchOptimizer: the optimizer                                           *)
(***************************************************************************)
\* what a step did: the call, the order numbers and the order records it
\* was given, and what it returned
BatchCall(op, targetOrder, availableOrders, result) ==
    [op |-> op,
     target |-> IF targetOrder = <<>> THEN "" ELSE targetOrder[1].orderNumber,
     pool |-> NumbersOf(availableOrders),
     given |-> targetOrder \o availableOrders,
     result |-> result]

NoResult == createEmptyResult("", 0)

\* a deletion timer that has run out but whose callback has not run yet
TimerDue(key) ==
    now - analysisCache[key].storedAt >= batchCacheExpiryMinutes

findBatchOpportunities(target, pool) ==
    LET targetOrder == BatchOrder(target)
        availableOrders == PoolOrders(pool)
        cacheKey == generateCacheKey(targetOrder, availableOrders)
    IN  /\ UNCHANGED notBatchVars
        /\ UNCHANGED <<now, executionMetrics>>
        /\ \A key \in DOMAIN analysisCache : ~TimerDue(key)
        /\ cacheHits + cacheMisses < MaxBatchCalls
        /\ IF ~validateInputs(targetOrder, availableOrders)
           THEN /\ batchCall' = BatchCall("findBatchOpportunities", <<targetOrder>>,
                        availableOrders,
                        createEmptyResult("Invalid input parameters", now))
                /\ UNCHANGED <<analysisCache, cacheHits, cacheMisses>>
           ELSE IF cacheKey \in DOMAIN analysisCache
           THEN /\ cacheHits' = cacheHits + 1
                /\ batchCall' = BatchCall("findBatchOpportunities", <<targetOrder>>,
                        availableOrders,
                        analysisCache[cacheKey].result)
                /\ UNCHANGED <<analysisCache, cacheMisses>>
           ELSE \E computed \in ComputedResults(targetOrder, availableOrders, now) :
                /\ cacheMisses' = cacheMisses + 1
                /\ batchCall' = BatchCall("findBatchOpportunities", <<targetOrder>>,
                        availableOrders, computed)
                /\ analysisCache' =
                        IF computed.success
                        THEN MapSet(analysisCache, cacheKey,
                                    [result |-> computed, storedAt |-> now])
                        ELSE analysisCache
                /\ UNCHANGED cacheHits

\* the setTimeout callback: this.analysisCache.delete(cacheKey)
ExpireAnalysis(key) ==
    /\ UNCHANGED notBatchVars
    /\ key \in DOMAIN analysisCache
    /\ TimerDue(key)
    /\ analysisCache' = MapDelete(analysisCache, key)
    /\ batchCall' = BatchCall("expire", <<>>, <<>>, NoResult)
    /\ UNCHANGED <<now, cacheHits, cacheMisses, executionMetrics>>

BatchTick ==
    /\ UNCHANGED notBatchVars
    /\ now + BatchTickMinutes <= MaxBatchElapsed
    /\ now' = now + BatchTickMinutes
    /\ batchCall' = BatchCall("tick", <<>>, <<>>, NoResult)
    /\ UNCHANGED <<analysisCache, cacheHits, cacheMisses, executionMetrics>>

\* calculateSKUBatchEfficiency(batchOrders).batchTime
estimateBatchDuration(batchOrders) ==
    LET n == Len(batchOrders)
        baseTime == n * basePicking
        batchTime == batchSetup + baseTime - (n - 1) * itemPickingReduction
                        - n * packingEfficiency
    IN  Max2(batchTime, (baseTime * 3) \div 10)

\* a faulty variant: critical orders are not looked for
validateBatchForExecution_SizeOnly(batchOrders) ==
    IF Len(batchOrders) < 2 THEN "Batch must contain at least 2 orders"
    ELSE IF Len(batchOrders) > maxBatchSize
    THEN "Batch size exceeds maximum of 8"
    ELSE ""

\* the reason validateBatchForExecution gives, "" for a valid batch
validateBatchForExecution(batchOrders) ==
    IF Len(batchOrders) < 2 THEN "Batch must contain at least 2 orders"
    ELSE IF Len(batchOrders) > maxBatchSize
    THEN "Batch size exceeds maximum of 8"
    ELSE IF \E i \in 1..Len(batchOrders) :
                batchOrders[i].urgencyScore > criticalUrgencyScore
    THEN "Batch contains critical urgency orders"
    ELSE ""

\* BTH_<timestamp>_<order count>_<random>
generateBatchId(batchOrders, t, random) ==
    [timestamp |-> t, orderCount |-> Len(batchOrders), random |-> random]

\* a faulty variant: the first order of the batch is started at once
BatchExecution_StartsFirst(batchOrders, batchId, t) ==
    [batchId |-> batchId,
     startTime |-> DateAt(t),
     status |-> "in_progress",
     orders |-> [i \in 1..Len(batchOrders) |->
                    [orderNumber |-> batchOrders[i].orderNumber,
                     status |-> IF i = 1 THEN "in_progress" ELSE "pending",
                     startTime |-> IF i = 1 THEN DateAt(t) ELSE NullDate,
                     completionTime |-> NullDate,
                     issues |-> <<>>]],
     totalOrders |-> Len(batchOrders),
     completedOrders |-> 0,
     estimatedCompletion |-> t * 1000 + estimateBatchDuration(batchOrders),
     efficiency |-> calculateSKUBatchEfficiency(batchOrders, 10)]

\* the tracking record executeBatch builds; estimatedCompletion in
\* thousandths of a minute
BatchExecution(batchOrders, batchId, t) ==
    [batchId |-> batchId,
     startTime |-> DateAt(t),
     status |-> "in_progress",
     orders |-> [i \in 1..Len(batchOrders) |->
                    [orderNumber |-> batchOrders[i].orderNumber,
                     status |-> "pending",
                     startTime |-> NullDate,
                     completionTime |-> NullDate,
                     issues |-> <<>>]],
     totalOrders |-> Len(batchOrders),
     completedOrders |-> 0,
     estimatedCompletion |-> t * 1000 + estimateBatchDuration(batchOrders),
     efficiency |-> calculateSKUBatchEfficiency(batchOrders, 10)]

\* what executeBatch returns, or that it threw
ExecuteResult(success, thrown, error, batchId, execution) ==
    [success |-> success, thrown |-> thrown, error |-> error,
     batchId |-> batchId, execution |-> execution]

\* executeBatch(batchOrders) on an array of orders
ExecuteBatch(batch, random) ==
    LET batchOrders == PoolOrders(batch)
        batchId == generateBatchId(batchOrders, now, random)
        reason == validateBatchForExecution(batchOrders)
        execution == BatchExecution(batchOrders, batchId, now)
    IN  /\ UNCHANGED notBatchVars
        /\ UNCHANGED <<now, analysisCache, cacheHits, cacheMisses>>
        /\ IF reason # ""
           THEN /\ batchCall' = BatchCall("executeBatch", <<>>, batchOrders,
                        ExecuteResult(FALSE, FALSE,
                            <<"Batch validation failed: ", reason>>,
                            <<batchId>>, <<>>))
                /\ UNCHANGED executionMetrics
           ELSE /\ batchesCreated < MaxExecutions
                /\ batchesCreated' = batchesCreated + 1
                /\ totalTimeSaved' =
                        totalTimeSaved + execution.efficiency.timeSavings
                /\ efficiencyGains' =
                        Append(efficiencyGains,
                               [timeSavings |-> execution.efficiency.timeSavings,
                                baseTime |-> execution.efficiency.baseTime])
                /\ batchCall' = BatchCall("executeBatch", <<>>, batchOrders,
                        ExecuteResult(TRUE, FALSE, <<>>, <<batchId>>,
                                      <<execution>>))

\* executeBatch(null): generateBatchId reads the length of the orders
\* before the try block, so the call throws (the promise is rejected)
ExecuteBatchWithoutArray ==
    /\ UNCHANGED notBatchVars
    /\ UNCHANGED <<now, analysisCache, cacheHits, cacheMisses, executionMetrics>>
    /\ batchCall' = BatchCall("executeBatch", <<>>, <<>>,
            ExecuteResult(FALSE, TRUE, <<"TypeError">>, <<>>, <<>>))

\* handleFindBatchClick(orderNumber, ordersData, optimizer)
HandleFindBatchClick(orderNumber) ==
    IF orderNumber \notin DOMAIN ordersData
    THEN /\ UNCHANGED notBatchVars
         /\ UNCHANGED <<now, analysisCache, cacheHits, cacheMisses,
                        executionMetrics>>
         /\ batchCall' = BatchCall("handleFindBatchClick", <<>>, <<>>, NoResult)
    ELSE findBatchOpportunities(orderNumber,
            SelectSeq(FloorOrders, LAMBDA o :
                o \in DOMAIN ordersData /\ o # orderNumber))

\* the optimizer after its constructor
BatchConstructed ==
    /\ analysisCache = EmptyMap
    /\ cacheHits = 0
    /\ cacheMisses = 0
    /\ batchesCreated = 0
    /\ totalTimeSaved = 0
    /\ efficiencyGains = <<>>
    /\ batchCall = BatchCall("constructor", <<>>, <<>>, NoResult)

BatchKeys ==
    {generateCacheKey(BatchOrder(target), PoolOrders(pool)) :
        target \in TargetChoices, pool \in PoolChoices}

BatchNext ==
    \/ \E target \in TargetChoices, pool \in PoolChoices :
            findBatchOpportunities(target, pool)
    \/ \E key \in BatchKeys : ExpireAnalysis(key)
    \/ BatchTick

\* the batches executeBatch is called with
ExecuteChoices ==
    {<<>>, <<"A1">>, <<"A1", "A2">>, <<"A1", "A2", "A3">>,
     <<"ORD-101", "ORD-102">>, <<"ORD-408", "ORD-409">>,
     SubSeq(CalmPool, 1, 7) \o <<"ORD-401">>,
     CalmPool \o <<"ORD-401">>}

BatchIdSuffixes == {"4K2Q", "9ZB1"}

\* the dispatch page: packing is started, batches are looked for and
\* executed
FloorNext ==
    \/ \E o \in FloorPool \cup {"Z9"} : StartPackWorkflow(o, "W1")
    \/ \E o \in FloorPool \cup {"Z9"} : HandleFindBatchClick(o)
    \/ \E batch \in ExecuteChoices, random \in BatchIdSuffixes :
            ExecuteBatch(batch, random)
    \/ ExecuteBatchWithoutArray

\* the optimizer under the calls on the larger pools
AnalysisKeys ==
    {generateCacheKey(BatchOrder(call[1]), PoolOrders(call[2])) :
        call \in AnalysisCalls}

AnalysisNext ==
    \/ \E call \in AnalysisCalls : findBatchOpportunities(call[1], call[2])
    \/ \E key \in AnalysisKeys : ExpireAnalysis(key)
    \/ BatchTick

(***************************************************************************)
(* Specifications                                                          *)
(***************************************************************************)
Init == now = 0 /\ PackInit /\ QueueConstructed /\ BatchConstructed
Spec == Init /\ [][PackNext]_vars

QueueInit ==
    now \in QueueStartTimes /\ PackInit /\ QueueConstructed /\ BatchConstructed
SpecQueue == QueueInit /\ [][QueueNext]_vars

SpecBatch == Init /\ [][BatchNext]_vars
\* the queue under direct scoring calls
SpecScore == QueueInit /\ [][ScoreNext]_vars
SpecAnalysis == Init /\ [][AnalysisNext]_vars

FloorInit == now = 0 /\ PackConstructed(FloorPool) /\ QueueConstructed
                /\ BatchConstructed
SpecFloor == FloorInit /\ [][FloorNext]_vars

\* the workflow after order A1 went through it n times with worker W1, each
\* time started, packed and dispatched within the same minute
PackedBefore(n) ==
    LET done == [NewSession("A1", "W1", 0) EXCEPT
                    !.timestamps = [key \in TimestampKeys |->
                                        IF key = "pending" THEN NullDate
                                        ELSE DateAt(0)],
                    !.actualDuration = Num(0)]
        history == [i \in 1..n |-> completePackWorkflow(<<>>, done, 0)[1]]
        metrics == IF n = 0 THEN EmptyMap
                   ELSE MapSet(EmptyMap, "W1",
                        [totalPackTime |-> Num(0), packCount |-> n,
                         averagePackTime |-> Ratio(Num(0), n),
                         bestTime |-> Num(0), worstTime |-> Num(0),
                         packedOrders |-> [i \in 1..n |->
                            [orderNumber |-> "A1", duration |-> Num(0),
                             timestamp |-> DateAt(0)]]])
    IN  /\ ordersData = [o \in OrderPool |->
                IF o = "A1" /\ n > 0
                THEN [status |-> "dispatched", lastUpdated |-> DateAt(0)]
                ELSE [status |-> "pending", lastUpdated |-> NullDate]]
        /\ packSessions = EmptyMap
        /\ packHistory = history
        /\ workerMetrics = metrics
        /\ globalMetrics = [totalPackTime |-> Num(0),
                            averagePackTime |-> Ratio(Num(0), Max2(n, 1)),
                            packCount |-> n]
        /\ storage = IF n = 0 THEN NoSavedState
                     ELSE SavedState(EmptyMap, history, metrics)
        /\ packCall = [op |-> "constructor", orderNumber |-> "", error |-> "",
                       message |-> <<>>, events |-> <<>>]
        /\ opCount = 0

HistoryInit == /\ now = 0
               /\ \E n \in 0..MaxHistory : PackedBefore(n)
               /\ QueueConstructed
               /\ BatchConstructed

HistoryNext ==
    \/ SavePackWorkflowState
    \/ RestorePackWorkflowState

SpecHistory == HistoryInit /\ [][HistoryNext]_vars

\* the workflow with the Mark Delivered button of the integration
DeliveryNext ==
    \/ \E o \in OrderNumbers : StartPackWorkflow(o, "W1")
    \/ \E o \in OrderNumbers, s \in PackStates : UpdatePackStatus(o, s, "")
    \/ \E o \in OrderNumbers : HandleMarkDelivered(o)

SpecDelivery == Init /\ [][DeliveryNext]_vars

(***************************************************************************)
(* Claims about PackWorkflow                                               *)
(***************************************************************************)
\* the transition table of the specification
AllowedTransitions ==
    {<<"pending", "picking">>, <<"picking", "packing">>,
     <<"picking", "pending">>, <<"packing", "packed">>,
     <<"packing", "picking">>, <<"packed", "dispatched">>}

\* C1: for an order with an active session, updatePackStatus(order, s)
\* succeeds exactly when (current status, s) is one of the six allowed pairs;
\* every other request (same state and unknown status names included) throws
\* 'Invalid state transition' and leaves the session's status and timestamps
\* as they were.
C1_OnlyAllowedTransitions ==
    [][\A o \in OrderNumbers, s \in StatusInputs, n \in NoteInputs :
        (/\ packCall'.op = "updatePackStatus"
         /\ packCall'.orderNumber = o
         /\ o \in DOMAIN packSessions
         /\ UpdatePackStatus(o, s, n))
        => IF <<packSessions[o].status, s>> \in AllowedTransitions
           THEN packCall'.error = ""
           ELSE /\ packCall'.error = "Invalid state transition"
                /\ o \in DOMAIN packSessions'
                /\ packSessions'[o].status = packSessions[o].status
                /\ packSessions'[o].timestamps = packSessions[o].timestamps]_vars

\* C1 witness: a request on a session that has already advanced to PACKING
\* was rejected as an invalid transition.
C1_Witness ==
    /\ packCall.op = "updatePackStatus"
    /\ packCall.error = "Invalid state transition"
    /\ packCall.orderNumber \in DOMAIN packSessions
    /\ packSessions[packCall.orderNumber].status = "packing"

\* C10: a successful updatePackStatus(o, DISPATCHED) removes o from the
\* active map and appends exactly one record, for o with status dispatched,
\* to the history; no session in the active map ever has status DISPATCHED.
C10_DispatchedLeavesActiveMap ==
    /\ [](\A o \in DOMAIN packSessions : packSessions[o].status # "dispatched")
    /\ [][\A o \in OrderNumbers, n \in NoteInputs :
            (/\ packCall'.op = "updatePackStatus"
             /\ packCall'.orderNumber = o
             /\ packCall'.error = ""
             /\ UpdatePackStatus(o, "dispatched", n))
            => /\ o \notin DOMAIN packSessions'
               /\ Len(packHistory') = Len(packHistory) + 1
               /\ SubSeq(packHistory', 1, Len(packHistory)) = packHistory
               /\ packHistory'[Len(packHistory')].orderNumber = o
               /\ packHistory'[Len(packHistory')].status = "dispatched"]_vars

\* C10 witness: the last call dispatched an order; its record closes the
\* history and the order has no active session.
C10_Witness ==
    /\ packCall.op = "updatePackStatus"
    /\ packCall.error = ""
    /\ Len(packHistory) > 0
    /\ packHistory[Len(packHistory)].orderNumber = packCall.orderNumber
    /\ packHistory[Len(packHistory)].status = "dispatched"
    /\ packCall.orderNumber \notin DOMAIN packSessions
    /\ \E i \in DOMAIN packCall.events : packCall.events[i].type = "pack-completed"


(***************************************************************************)
(* Claims about DispatchPriorityQueue                                      *)
(***************************************************************************)
\* a step that is the call updateQueue() with no argument
RecomputeStep == UpdateQueue(NoOrders) /\ queueCall'.op = "updateQueue"

\* the ranked records of order number o
RankedOf(ranking, o) ==
    {i \in 1..Len(ranking) : ranking[i].orderNumber = o}

\* what scoring the record gives at time t when nothing is cached
UncachedScore(order, t) == calculateDPS(order, EmptyMap, t).score

\* C2: once a ranking exists and nothing is dirty, updateQueue() returns
\* the ranking it already had, unchanged, and calls calculateDPS for no order.
C2_RecomputeIdempotent ==
    [][(RecomputeStep /\ dirtyOrders = {} /\ Len(priorityQueue) > 0)
        => /\ priorityQueue' = priorityQueue
           /\ queueCall'.returned = priorityQueue
           /\ queueCall'.scored = <<>>]_vars

C2_Witness ==
    /\ queueCall.op = "updateQueue" /\ ~queueCall.arg.given
    /\ queueCall.scored = <<>>
    /\ Len(queueCall.returned) = 4
    /\ queueCall.returned = priorityQueue
    /\ totalCalculations = 1
    /\ lastCalculation.t < now

\* the record at position i of the working set no longer has the scoring
\* inputs its ranked record was scored from
EditedSinceRanked(i) ==
    \E j \in RankedOf(priorityQueue, qOrders[i].orderNumber) :
        \/ priorityQueue[j].orderTotal # qOrders[i].orderTotal
        \/ priorityQueue[j].expectedDispatch # qOrders[i].expectedDispatch

\* C3: when a scoring input of a loaded order was changed and the order was
\* marked dirty, updateQueue() ranks the order with the score of its current
\* field values at the time of the call.
C3_DirtyOrderGetsCurrentScore ==
    [][RecomputeStep
        => \A i \in 1..Len(qOrders) :
              (qOrders[i].orderNumber \in dirtyOrders /\ EditedSinceRanked(i))
              => \A j \in RankedOf(priorityQueue', qOrders[i].orderNumber) :
                    priorityQueue'[j].dpsScore = UncachedScore(qOrders[i], now)]_vars

\* C4: after a recompute of the loaded orders, updateQueue() with exactly one
\* order marked dirty calls calculateDPS for no order outside the dirty set.
C4_OnlyDirtyRescored ==
    [][(/\ RecomputeStep
        /\ Len(priorityQueue) > 0
        /\ OrderNumbersOf(priorityQueue) = OrderNumbersOf(qOrders)
        /\ Cardinality(dirtyOrders) = 1
        /\ dirtyOrders \subseteq OrderNumbersOf(qOrders))
        => \A k \in 1..Len(queueCall'.scored) :
              queueCall'.scored[k] \in dirtyOrders]_vars

\* a may stand directly before b in the ranking
InRankOrder(a, b) ==
    /\ a.dpsScore >= b.dpsScore
    /\ a.dpsScore = b.dpsScore =>
        /\ (b.isOverdue => a.isOverdue)
        /\ a.isOverdue = b.isOverdue =>
            /\ parseOrderValue(a.orderTotal) >= parseOrderValue(b.orderTotal)
            /\ (/\ parseOrderValue(a.orderTotal) = parseOrderValue(b.orderTotal)
                /\ parseDate(a.orderDate).k = "date"
                /\ parseDate(b.orderDate).k = "date")
               => parseDate(a.orderDate).t <= parseDate(b.orderDate).t

\* C5: every adjacent pair of the ranking is in order: higher dpsScore first;
\* on equal scores overdue first, then higher orderTotal, then older orderDate.
C5_SortingInvariant ==
    \A i \in 1..(Len(priorityQueue) - 1) :
        InRankOrder(priorityQueue[i], priorityQueue[i + 1])

C5_Witness ==
    /\ Len(priorityQueue) = 4
    /\ \A i \in 1..3 : priorityQueue[i].dpsScore = priorityQueue[i + 1].dpsScore
    /\ priorityQueue[1].orderDate # priorityQueue[2].orderDate
    /\ priorityQueue[1].orderTotal = priorityQueue[2].orderTotal
    /\ parseOrderValue(priorityQueue[2].orderTotal)
            > parseOrderValue(priorityQueue[3].orderTotal)
    /\ priorityQueue[3].isOverdue /\ ~priorityQueue[4].isOverdue
    /\ [i \in 1..4 |-> priorityQueue[i].orderNumber] = <<"Q4", "Q3", "Q2", "Q1">>

\* C6: after updateQueue(orders), whatever was loaded before, the ranking
\* holds the order numbers of orders, as many records as orders has, each
\* with a dpsScore, and the dirty set is empty.
C6_LoadReplacesWorkingSet ==
    [][\A orders \in LoadChoices :
        (UpdateQueue(GivenOrders(orders)) /\ queueCall'.arg = GivenOrders(orders))
        => /\ Len(priorityQueue') = Len(orders)
           /\ \A o \in QueueOrderNumbers :
                Cardinality(RankedOf(priorityQueue', o))
                    = Cardinality(RankedOf(orders, o))
           /\ \A j \in 1..Len(priorityQueue') : HasScore(priorityQueue'[j])
           /\ queueCall'.returned = priorityQueue'
           /\ dirtyOrders' = {}]_vars

(***************************************************************************)
(* Claims about BatchOptimizer                                             *)
(***************************************************************************)
\* the last call was findBatchOpportunities and returned an analysis
AnalysisReturned ==
    batchCall.op = "findBatchOpportunities" /\ batchCall.result.success

Recommendations == batchCall.result.batchOpportunities

\* C7: the analysis returned for target T names T, and each of its
\* recommendations lists T first and at least one more order.
C7_ResultIsForTarget ==
    AnalysisReturned =>
        /\ batchCall.result.targetOrder = batchCall.target
        /\ \A r \in 1..Len(Recommendations) :
            /\ Len(Recommendations[r].orders) >= 2
            /\ Recommendations[r].orders[1].orderNumber = batchCall.target

\* C8: no recommendation lists an order whose urgency score is above the
\* critical ceiling, the target included.
C8_NoCriticalOrderInBatch ==
    AnalysisReturned =>
        \A r \in 1..Len(Recommendations) :
            \A i \in 1..Len(Recommendations[r].orders) :
                Recommendations[r].orders[i].urgencyScore <= criticalUrgencyScore

UniqueNumbers(numbers) ==
    \A i, j \in 1..Len(numbers) : numbers[i] = numbers[j] => i = j

\* C9: every recommendation lists between 2 and maxBatchSize orders, and
\* when the pool of the call has no order number twice, neither has the
\* recommendation.
C9_BatchSizeAndUniqueness ==
    AnalysisReturned =>
        \A r \in 1..Len(Recommendations) :
            /\ Len(Recommendations[r].orders) >= 2
            /\ Len(Recommendations[r].orders) <= maxBatchSize
            /\ UniqueNumbers(batchCall.pool)
                => UniqueNumbers(NumbersOf(Recommendations[r].orders))

\* C11: startPackWorkflow(o, w) on an order that already has an active
\* session fails with "already in pack workflow" and leaves that session's
\* status, worker and timestamps as they were; the active sessions are keyed
\* by order number and each is stored under its own order number, so an
\* order never has two active sessions.
C11_SecondStartRejected ==
    /\ [](\A o \in DOMAIN packSessions : packSessions[o].orderNumber = o)
    /\ [][\A o \in OrderNumbers, w \in WorkerNames :
            (/\ o \in DOMAIN packSessions
             /\ packCall'.op = "startPackWorkflow"
             /\ packCall'.orderNumber = o
             /\ StartPackWorkflow(o, w))
            => /\ packCall'.error = "already in pack workflow"
               /\ DOMAIN packSessions' = DOMAIN packSessions
               /\ packSessions'[o].status = packSessions[o].status
               /\ packSessions'[o].workerName = packSessions[o].workerName
               /\ packSessions'[o].timestamps = packSessions[o].timestamps]_vars

\* C11 witness: the last call tried to start an order whose session had
\* already moved on to packing at a later time; the session is still there.
C11_Witness ==
    /\ packCall.op = "startPackWorkflow"
    /\ packCall.error = "already in pack workflow"
    /\ packCall.orderNumber \in DOMAIN packSessions
    /\ packSessions[packCall.orderNumber].status = "packing"
    /\ packSessions[packCall.orderNumber].timestamps["packing"] = DateAt(1)
    /\ now = 1

\* the message has the given text among the parts of its template literal
Names(message, text) == \E i \in DOMAIN message : message[i] = text

\* C12: startPackWorkflow on an order number that is not in the order pool
\* throws "Order <o> not found", the message carrying that number, and
\* creates no session; updatePackStatus on an order number without an active
\* session throws an error that names the order and changes no session, no
\* history record and no metrics.  (packCall records the operation and the
\* order number of the call a step made.)
C12_UnknownOrderRejected ==
    /\ [][\A o \in OrderNumbers, w \in WorkerNames :
            (/\ o \notin DOMAIN ordersData
             /\ packCall'.op = "startPackWorkflow"
             /\ packCall'.orderNumber = o
             /\ StartPackWorkflow(o, w))
            => /\ packCall'.error = "not found"
               /\ Names(packCall'.message, o)
               /\ packSessions' = packSessions]_vars
    /\ [][\A o \in OrderNumbers :
            (/\ o \notin DOMAIN packSessions
             /\ packCall'.op = "updatePackStatus"
             /\ packCall'.orderNumber = o)
            => /\ packCall'.error = "No active pack session"
               /\ Names(packCall'.message, o)
               /\ UNCHANGED <<packSessions, packHistory, workerMetrics,
                              globalMetrics>>]_vars

\* C12 witness: with one order dispatched and another being picked, the last
\* call tried to start an order number the pool does not have.
C12_Witness ==
    /\ packCall.op = "startPackWorkflow"
    /\ packCall.error = "not found"
    /\ packCall.orderNumber \notin DOMAIN ordersData
    /\ Names(packCall.message, packCall.orderNumber)
    /\ packSessions # EmptyMap
    /\ packHistory # <<>>

(***************************************************************************)
(* Claims about scoring                                                    *)
(***************************************************************************)
\* the order and the score of the last direct calculateDPS call
ScoredOrder == queueCall.arg.orders[1]
ScoreReturned == queueCall.op = "calculateDPS"

\* C13: whatever the order record (well-formed or not, negative or
\* non-numeric orderTotal included) and whatever the clock, calculateDPS
\* returns a number between 0 and 100 (scores are in hundredths of a point);
\* so every entry of the ranking carries a dpsScore between 0 and 100.
C13_ScoreWithinRange ==
    /\ ScoreReturned => queueCall.returned \in 0..(100 * 100)
    /\ \A i \in DOMAIN priorityQueue :
            priorityQueue[i].dpsScore \in 0..(100 * 100)

\* C13 witness: a ranking holds a zero score and a positive one, and the
\* last call scored an order with a negative orderTotal above zero.
C13_Witness ==
    /\ ScoreReturned
    /\ "orderTotal" \in DOMAIN ScoredOrder
    /\ ScoredOrder.orderTotal = Num(-50)
    /\ queueCall.returned > 0
    /\ \E i, j \in DOMAIN priorityQueue :
            priorityQueue[i].dpsScore = 0 /\ priorityQueue[j].dpsScore > 0

\* orderDate or expectedDispatch is missing or does not parse
DatesUnusable(order) ==
    \/ {"orderDate", "expectedDispatch"} \ DOMAIN order # {}
    \/ parseDate(order.orderDate).k = "null"
    \/ parseDate(order.expectedDispatch).k = "null"

\* C14: calculateDPS returns exactly 0 for an order whose orderDate or
\* expectedDispatch is missing or unparseable, whatever calls the queue
\* served before.
C14_UnusableDatesScoreZero ==
    (ScoreReturned /\ DatesUnusable(ScoredOrder)) => queueCall.returned = 0

\* C15: an order whose expectedDispatch lies in the past scores at least 70,
\* for every valid orderDate, every (positive) orderTotal and every
\* deliveryBy, given or not.
C15_OverdueScoresAtLeast70 ==
    (/\ ScoreReturned
     /\ validateOrderForDPS(ScoredOrder)
     /\ parseDate(ScoredOrder.orderDate).k # "null"
     /\ isOverdue(ScoredOrder, now)
     /\ ScoredOrder.orderTotal.k = "num"
     /\ ScoredOrder.orderTotal.v > 0)
    => queueCall.returned >= 70 * 100

\* C16: the score calculateDPS returns is determined by the order's field
\* values and the clock alone, whatever the queue scored earlier; a queue
\* that has scored nothing yet is one such history, so every call returns
\* what a call on an empty cache returns for that order at that time.
C16_ScoreDependsOnOrderAndClockOnly ==
    ScoreReturned => queueCall.returned = UncachedScore(ScoredOrder, now)

\* the order of the scenario, for the clock at 0: dispatch due an hour ago,
\* ordered 26 hours ago, delivery promised in 24 hours, total 1500
ScenarioOrder ==
    QOrder("S1", DateAt(-26 * MinutesPerHour), DateAt(-MinutesPerHour),
           DateAt(24 * MinutesPerHour), Num(1500))

ScenarioScored == ScoreReturned /\ now = 0 /\ ScoredOrder = ScenarioOrder

\* C17 as stated: for the scenario order the dispatch, delivery, age and
\* value sub-scores are 100 each and calculateDPS returns 100.
C17_ScenarioScores100 ==
    ScenarioScored
    => /\ calculateDispatchDeadlineScore(now, ScenarioOrder.expectedDispatch.t)
            = 600 * 100
       /\ calculateDeliveryPromiseScore(ScenarioOrder.orderDate,
                                        ScenarioOrder.deliveryBy) = 100
       /\ calculateOrderAgeScore(now, ScenarioOrder.orderDate.t) = 100
       /\ calculateOrderValueScore(ScenarioOrder.orderTotal.v) = 100
       /\ queueCall.returned = 100 * 100

\* C17 amended: for the scenario order the dispatch, delivery, age and value
\* sub-scores are 100, 60 (a 50 hour delivery window), 70 (26 hours old) and
\* 100; calculateDPS returns 89 when it scores the order from its fields,
\* and the cached score when the cache holds a live entry for the order.
C17_ScenarioScores89 ==
    [][(now = 0 /\ CalculateDPS(ScenarioOrder))
       => /\ calculateDispatchDeadlineScore(now, ScenarioOrder.expectedDispatch.t)
               = 600 * 100
          /\ calculateDeliveryPromiseScore(ScenarioOrder.orderDate,
                                           ScenarioOrder.deliveryBy) = 60
          /\ calculateOrderAgeScore(now, ScenarioOrder.orderDate.t) = 70
          /\ calculateOrderValueScore(ScenarioOrder.orderTotal.v) = 100
          /\ queueCall'.returned =
                IF CacheHit(ScenarioOrder, calculationCache, now)
                THEN calculationCache[getCacheKey(ScenarioOrder, now)].score
                ELSE 89 * 100]_vars

\* C17 witness: the scenario order was scored at clock 0 and got 89, which
\* the cache now holds.
C17_Witness ==
    /\ ScenarioScored
    /\ queueCall.returned = 89 * 100
    /\ calculationCache[getCacheKey(ScenarioOrder, now)] =
            [score |-> 89 * 100, timestamp |-> 0]

\* a required field is missing, or orderDate / expectedDispatch does not parse
Malformed(order) == ~validateOrderForDPS(order) \/ DatesUnusable(order)

\* C18: after a recompute over a list that mixes well-formed and malformed
\* orders, every loaded order is in the ranking, every malformed order has
\* dpsScore 0, every well-formed order scores above 0, and so each malformed
\* order stands after every well-formed one.
C18_MalformedOrdersRankLast ==
    queueCall.op = "updateQueue"
    => /\ Len(priorityQueue) = Len(qOrders)
       /\ OrderNumbersOf(priorityQueue) = OrderNumbersOf(qOrders)
       /\ \A i \in DOMAIN priorityQueue :
            IF Malformed(priorityQueue[i])
            THEN priorityQueue[i].dpsScore = 0
            ELSE priorityQueue[i].dpsScore > 0
       /\ \A i, j \in DOMAIN priorityQueue :
            (Malformed(priorityQueue[i]) /\ ~Malformed(priorityQueue[j]))
            => j < i

(***************************************************************************)
(* Claims about getTopPriorityOrders                                       *)
(***************************************************************************)
\* C19: a recompute over m orders leaves a ranking of m entries, and only a
\* recompute changes the ranking; getTopPriorityOrders(n), n >= 0, then
\* returns min(n, m) entries, the i-th being the i-th order of the ranking
\* with priorityRank i, so the ranks follow non-increasing dpsScore.
C19_TopOrdersFollowRanking ==
    /\ [][totalCalculations' # totalCalculations
            => Len(priorityQueue') = Len(qOrders')]_vars
    /\ [][priorityQueue' # priorityQueue
            => totalCalculations' = totalCalculations + 1]_vars
    /\ [][\A n \in TopCounts :
            (n >= 0 /\ totalCalculations > 0 /\ GetTopPriorityOrders(n))
            => LET top == queueCall'.returned
               IN  /\ Len(top) = Min2(n, Len(priorityQueue))
                   /\ \A i \in 1..Len(top) :
                        /\ top[i].priorityRank = i
                        /\ \A field \in DOMAIN priorityQueue[i] :
                                top[i][field] = priorityQueue[i][field]
                   /\ \A i \in 1..(Len(top) - 1) :
                        top[i].dpsScore >= top[i + 1].dpsScore]_vars

\* C19 witness: three orders are ranked and the last call asked for two; it
\* got the first two, ranked 1 and 2, the first with the higher score.
C19_Witness ==
    /\ queueCall.op = "getTopPriorityOrders"
    /\ queueCall.arg.count = 2
    /\ Len(priorityQueue) = 3
    /\ Len(queueCall.returned) = 2
    /\ queueCall.returned[1].priorityRank = 1
    /\ queueCall.returned[2].priorityRank = 2
    /\ queueCall.returned[2].orderNumber = priorityQueue[2].orderNumber
    /\ queueCall.returned[1].dpsScore > queueCall.returned[2].dpsScore

\* C20: getTopPriorityOrders called before any recompute returns an empty
\* list and leaves the orders, the dirty set, the cache, the ranking and the
\* recompute bookkeeping as they were.
C20_TopOrdersBeforeRecompute ==
    [][(totalCalculations = 0 /\ queueCall'.op = "getTopPriorityOrders")
       => /\ queueCall'.returned = <<>>
          /\ UNCHANGED <<qOrders, dirtyOrders, calculationCache, priorityQueue,
                         isCalculating, lastCalculation,
                         totalCalculations>>]_vars

\* C20 witness: nothing has been recomputed, the cache holds a score from a
\* direct call, and the last call asked for the top five and got none.
C20_Witness ==
    /\ queueCall.op = "getTopPriorityOrders"
    /\ queueCall.arg.count = 5
    /\ queueCall.returned = <<>>
    /\ totalCalculations = 0
    /\ lastCalculation = NullDate
    /\ calculationCache # EmptyMap

(***************************************************************************)
(* Claims about the batch recommendations                                  *)
(***************************************************************************)
\* the step is a findBatchOpportunities call that follows another one made
\* with the same order numbers (target and pool) but other field values
SameNumbersChangedFields ==
    /\ batchCall.op = "findBatchOpportunities"
    /\ batchCall'.op = "findBatchOpportunities"
    /\ batchCall'.target = batchCall.target
    /\ batchCall'.pool = batchCall.pool
    /\ batchCall'.given # batchCall.given

\* the lists of recommendations the fields given to a call lead to
RecommendationsFor(call, t) ==
    {computed.batchOpportunities :
        computed \in ComputedResults(call.given[1], Tail(call.given), t)}

\* C21: recommendations are never stored: of two successive calls with the
\* same order numbers but changed urgency, SKU, county or value fields, the
\* second returns the recommendations its own field values lead to.
C21_ResultReflectsChangedFields ==
    [][SameNumbersChangedFields /\ batchCall'.result.success
        => batchCall'.result.batchOpportunities
                \in RecommendationsFor(batchCall', now')]_vars

\* the pool orders of a call that pass the eligibility filter and have the
\* target's SKU
SameSkuMates(call, t) ==
    SelectSeq(Tail(call.given), LAMBDA order :
        Eligible(call.given[1], order, t) /\ order.sku = call.given[1].sku)

\* a recommendation of one of the SKU types that lists all the given numbers
SkuRecommendationOf(recommendations, numbers) ==
    \E r \in 1..Len(recommendations) :
        /\ recommendations[r].type \in {"sku_exact", "sku_similar"}
        /\ recommendations[r].timeSavings > 0
        /\ \A i \in 1..Len(numbers) :
            \E j \in 1..Len(recommendations[r].orders) :
                recommendations[r].orders[j].orderNumber = numbers[i]

C23_MinimumSavings ==
    batchCall.op = "findBatchOpportunities" =>
        \A r \in 1..Len(Recommendations) :
            /\ Recommendations[r].timeSavings >= minTimeSavings
            /\ Recommendations[r].type = "hybrid_sku_geo"
                => /\ Len(Recommendations[r].orders) >= minHybridOrders
                   /\ 10 * Recommendations[r].timeSavings >= 12 * minTimeSavings

\* C23 witness: a computed analysis whose adjacent-county batch passed the
\* lower bar of its own analysis (1.2 minutes) and is not among the
\* recommendations, which include a hybrid one.
C23_Witness ==
    /\ batchCall.op = "findBatchOpportunities"
    /\ cacheHits = 0
    /\ batchCall.result.success
    /\ LET geo == analyzeGeographicBatches(batchCall.given[1],
                    filterEligibleOrders(batchCall.given[1],
                                         Tail(batchCall.given), now))
       IN  \E g \in 1..Len(geo) :
                /\ geo[g].type = "geographic_adjacent"
                /\ geo[g].efficiency.timeSavings < minTimeSavings
    /\ \A r \in 1..Len(Recommendations) :
            Recommendations[r].type # "geographic_adjacent"
    /\ \E r \in 1..Len(Recommendations) :
            Recommendations[r].type = "hybrid_sku_geo"

\* b's efficiency gain (timeSavings / baseTime * 100, baseTime being
\* basePicking for each order) exceeds a's by more than 5 points
GainAhead(b, a) ==
    100 * (b.timeSavings * Len(a.orders) - a.timeSavings * Len(b.orders))
        > 5 * basePicking * Len(a.orders) * Len(b.orders)

\* b's time savings exceed a's by more than 1 minute
TimeAhead(b, a) == b.timeSavings - a.timeSavings > 1000

\* the three conditions of the ranking for a listed before b
RankedInOrder(a, b) ==
    /\ ~GainAhead(b, a)
    /\ ~GainAhead(a, b) => ~TimeAhead(b, a)
    /\ ~GainAhead(a, b) /\ ~TimeAhead(a, b) /\ ~TimeAhead(b, a)
        => a.riskScore <= b.riskScore

\* the three conditions order the recommendations consistently
RankingIsTransitive(recommendations) ==
    \A i, j, k \in 1..Len(recommendations) :
        /\ RankedInOrder(recommendations[i], recommendations[j])
        /\ RankedInOrder(recommendations[j], recommendations[k])
        => RankedInOrder(recommendations[i], recommendations[k])

\* C24 as stated: the returned list has at most 10 entries, and for any two
\* recommendations a ranked before b: b's efficiency gain does not exceed
\* a's by more than 5 points; if the gains are within 5 points, b's time
\* savings do not exceed a's by more than 1 minute; if both are within
\* tolerance, a's risk score is not higher than b's.
C24_RankedPairwise ==
    batchCall.op = "findBatchOpportunities" =>
        /\ Len(Recommendations) <= topRecommendations
        /\ \A i, j \in 1..Len(Recommendations) :
            i < j => RankedInOrder(Recommendations[i], Recommendations[j])

\* C24 amended: the returned list has at most 10 entries, and the three
\* conditions hold for any two recommendations a ranked before b whenever
\* they order the recommendations of the list consistently (with the
\* tolerances they need not: near-ties can chain or run in a circle).
C24_RankedWhereTransitive ==
    batchCall.op = "findBatchOpportunities" =>
        /\ Len(Recommendations) <= topRecommendations
        /\ RankingIsTransitive(Recommendations)
            => \A i, j \in 1..Len(Recommendations) :
                i < j => RankedInOrder(Recommendations[i], Recommendations[j])

\* C24 witness: three recommendations that the conditions order
\* consistently, the first two near-equal in gain and time and ranked by
\* their different risk scores.
C24_Witness ==
    /\ batchCall.op = "findBatchOpportunities"
    /\ Len(Recommendations) >= 3
    /\ RankingIsTransitive(Recommendations)
    /\ ~GainAhead(Recommendations[1], Recommendations[2])
    /\ ~TimeAhead(Recommendations[1], Recommendations[2])
    /\ Recommendations[1].riskScore < Recommendations[2].riskScore

\* min(1.0, maxUrgencyInBatch / 100 + 0.2 if more than 5 orders + 0.1 if the
\* high-value test holds of some order), in hundredths
RiskOf(orders, highValue(_)) ==
    Min2(MaxUrgency(orders)
            + (IF Len(orders) > 5 THEN 20 ELSE 0)
            + (IF \E i \in 1..Len(orders) : highValue(orders[i])
               THEN 10 ELSE 0),
         100)

\* each candidate batch of the call that meets the minimum savings is among
\* the recommendations, whatever its risk score
NoBatchDropped(call, t) ==
    LET candidates ==
            allBatches(call.given[1],
                filterEligibleOrders(call.given[1], Tail(call.given), t))
        found == call.result.batchOpportunities
    IN  \A c \in 1..Len(candidates) :
            candidates[c].efficiency.timeSavings >= minTimeSavings
                => \E r \in 1..Len(found) :
                    /\ found[r].type = candidates[c].type
                    /\ NumbersOf(found[r].orders) = NumbersOf(candidates[c].orders)
                    /\ found[r].riskScore = candidates[c].efficiency.riskScore

C26_UrgencyBatchNearTarget ==
    batchCall.op = "findBatchOpportunities" =>
        \A r \in 1..Len(Recommendations) :
            Recommendations[r].type = "urgency_similar" =>
                \A i \in 1..Len(Recommendations[r].orders) :
                    LET member == Recommendations[r].orders[i]
                    IN  /\ member.urgencyScore <= riskUrgencyScore
                        /\ batchCall.given[1].urgencyScore <= riskUrgencyScore
                        /\ member.orderNumber # batchCall.target
                            => Distance(member.urgencyScore,
                                        batchCall.given[1].urgencyScore)
                                    <= urgencyTolerance

(***************************************************************************)
(* Claims about the execution of a batch                                   *)
(***************************************************************************)
\* a batch executeBatch has to refuse: too few orders, too many, or an
\* order of critical urgency
Refused(batchOrders) ==
    \/ Len(batchOrders) < 2
    \/ Len(batchOrders) > maxBatchSize
    \/ \E i \in 1..Len(batchOrders) :
            batchOrders[i].urgencyScore > criticalUrgencyScore

\* C27: executeBatch on an array with fewer than 2 orders, more than 8
\* orders, or an order of urgency above 85 does not throw; it returns
\* success = false with a reason, and batchesCreated, totalTimeSaved and
\* efficiencyGains stay as they were.
C27_RefusedBatchFails ==
    [][\A batch \in ExecuteChoices, random \in BatchIdSuffixes :
            ExecuteBatch(batch, random) /\ Refused(PoolOrders(batch)) =>
                /\ batchCall'.op = "executeBatch"
                /\ batchCall'.result.thrown = FALSE
                /\ batchCall'.result.success = FALSE
                /\ Len(batchCall'.result.error) = 2
                /\ batchCall'.result.error[2] # ""
                /\ batchCall'.result.execution = <<>>
                /\ executionMetrics' = executionMetrics]_vars

\* a batch was executed, and then a batch with a critical order was refused
C27_Witness ==
    /\ batchCall.op = "executeBatch"
    /\ batchCall.result.thrown = FALSE
    /\ batchCall.result.success = FALSE
    /\ Len(batchCall.given) = 2
    /\ \E i \in 1..2 : batchCall.given[i].urgencyScore > criticalUrgencyScore
    /\ batchCall.result.error[2] = "Batch contains critical urgency orders"
    /\ batchesCreated = 1
    /\ Len(efficiencyGains) = 1

\* C28: a successful executeBatch returns an execution record with one
\* entry per input order, in the order of the input, each with status
\* "pending"; totalOrders is the size of the batch and completedOrders is 0;
\* batchesCreated grows by exactly one; no order record and no pack session
\* changes.
C28_ExecutionRecord ==
    [][\A batch \in ExecuteChoices, random \in BatchIdSuffixes :
            ExecuteBatch(batch, random) /\ batchCall'.result.success =>
                LET execution == batchCall'.result.execution[1]
                IN  /\ Len(execution.orders) = Len(batch)
                    /\ \A i \in 1..Len(batch) :
                        /\ execution.orders[i].orderNumber = batch[i]
                        /\ execution.orders[i].status = "pending"
                    /\ execution.totalOrders = Len(batch)
                    /\ execution.completedOrders = 0
                    /\ batchesCreated' = batchesCreated + 1
                    /\ batchCall'.given = PoolOrders(batch)
                    /\ ordersData' = ordersData
                    /\ packSessions' = packSessions]_vars

\* a batch of eight orders was executed while an order was being packed
C28_Witness ==
    /\ batchCall.op = "executeBatch"
    /\ batchCall.result.success
    /\ Len(batchCall.result.execution[1].orders) = maxBatchSize
    /\ batchesCreated = 1
    /\ packSessions # EmptyMap

(***************************************************************************)
(* Claims about orders that are being packed                               *)
(***************************************************************************)
\* C29: an order with an active pack session is not offered for new batched
\* work: findSimilarOrders never returns it, and no recommendation a Find
\* Batch click produces lists it beside the target.
C29_PackedOrderNotOffered ==
    [][/\ \A o \in DOMAIN ordersData' :
            findSimilarOrders(o, ordersData', packSessions')
                \cap DOMAIN packSessions' = {}
       /\ \A o \in FloorPool :
            HandleFindBatchClick(o) /\ batchCall'.op = "findBatchOpportunities" =>
                \A r \in 1..Len(batchCall'.result.batchOpportunities) :
                    \A i \in 1..Len(batchCall'.result.batchOpportunities[r].orders) :
                        LET member == batchCall'.result.batchOpportunities[r]
                                            .orders[i].orderNumber
                        IN  member # o => member \notin DOMAIN packSessions']_vars

(***************************************************************************)
(* Claims about the lifecycle events                                       *)
(***************************************************************************)
LifecycleEvents ==
    {"pack-started", "pack-status-updated", "pack-completed",
     "metrics-updated"}

\* the positions of the events of one type in a list of events
EventsOfType(events, type) == {i \in 1..Len(events) : events[i].type = type}

\* C30: a successful startPackWorkflow emits exactly one pack-started; a
\* successful updatePackStatus emits exactly one pack-status-updated, which
\* carries the status the session had and the status it was given; a
\* transition to packed emits metrics-updated and a transition to
\* dispatched emits pack-completed, each before that call's
\* pack-status-updated; a failed start or update emits none of these events.
C30_LifecycleEvents ==
    [][/\ \A o \in OrderNumbers \cap {packCall'.orderNumber}, w \in WorkerNames :
            /\ packCall'.op = "startPackWorkflow"
            /\ packCall'.error = ""
            /\ StartPackWorkflow(o, w)
            => LET events == packCall'.events
               IN  /\ Cardinality(EventsOfType(events, "pack-started")) = 1
                   /\ \A i \in EventsOfType(events, "pack-started") :
                        events[i].orderNumber = o
       /\ \A o \in OrderNumbers \cap {packCall'.orderNumber},
             s \in StatusInputs, n \in NoteInputs :
            /\ packCall'.op = "updatePackStatus"
            /\ packCall'.error = ""
            /\ UpdatePackStatus(o, s, n)
            => LET events == packCall'.events
                   updates == EventsOfType(events, "pack-status-updated")
               IN  /\ Cardinality(updates) = 1
                   /\ \A i \in updates :
                        /\ events[i].orderNumber = o
                        /\ events[i].previousStatus = packSessions[o].status
                        /\ events[i].newStatus = s
                        /\ s = "packed" =>
                            \E j \in EventsOfType(events, "metrics-updated") :
                                j < i
                        /\ s = "dispatched" =>
                            \E j \in EventsOfType(events, "pack-completed") :
                                j < i
       /\ /\ packCall'.op \in {"startPackWorkflow", "updatePackStatus"}
          /\ packCall'.error # ""
          => \A type \in LifecycleEvents :
                EventsOfType(packCall'.events, type) = {}]_vars

\* an order went from picking to dispatched; the last call emitted
\* pack-completed and then pack-status-updated (packed to dispatched)
C30_Witness ==
    /\ packCall.op = "updatePackStatus"
    /\ packCall.error = ""
    /\ Len(packCall.events) = 2
    /\ packCall.events[1].type = "pack-completed"
    /\ packCall.events[2].type = "pack-status-updated"
    /\ packCall.events[2].previousStatus = "packed"
    /\ packCall.events[2].newStatus = "dispatched"
    /\ packCall.orderNumber \notin DOMAIN packSessions

(***************************************************************************)
(* Claims about the saved state                                            *)
(***************************************************************************)
\* the numbers of one worker's accumulator and its samples
MetricsNumbers(m) ==
    [totalPackTime |-> m.totalPackTime, packCount |-> m.packCount,
     averagePackTime |-> m.averagePackTime,
     bestTime |-> m.bestTime, worstTime |-> m.worstTime,
     packedOrders |-> [i \in DOMAIN m.packedOrders |->
                        [orderNumber |-> m.packedOrders[i].orderNumber,
                         duration |-> m.packedOrders[i].duration]]]

\* C31: restoring the state that was saved from the current state gives the
\* same active sessions (order numbers, statuses, workers), the complete
\* history, record for record, and the same worker metrics, whatever the
\* length of the history.
C31_RoundTrip ==
    [][/\ RestorePackWorkflowState
       /\ storage = SavedState(packSessions, packHistory, workerMetrics)
       => /\ DOMAIN packSessions' = DOMAIN packSessions
          /\ \A o \in DOMAIN packSessions :
                /\ packSessions'[o].orderNumber = packSessions[o].orderNumber
                /\ packSessions'[o].status = packSessions[o].status
                /\ packSessions'[o].workerName = packSessions[o].workerName
          /\ Len(packHistory') = Len(packHistory)
          /\ \A i \in 1..Len(packHistory) :
                /\ packHistory'[i].orderNumber = packHistory[i].orderNumber
                /\ packHistory'[i].workerName = packHistory[i].workerName
                /\ packHistory'[i].status = packHistory[i].status
          /\ DOMAIN workerMetrics' = DOMAIN workerMetrics
          /\ \A w \in DOMAIN workerMetrics :
                MetricsNumbers(workerMetrics'[w])
                    = MetricsNumbers(workerMetrics[w])]_vars

(***************************************************************************)
(* Claims about the monotonicity of the score                              *)
(***************************************************************************)
\* the score calculateDPS gives an order at the current time on an empty
\* cache
ScoreNow(order) == calculateDPS(order, EmptyMap, now).score

\* the orderTotal values compared, and the class each counts as: negative
\* and non-numeric totals count as zero
TotalsCompared ==
    {Num(-50), NonNumeric, Num(0), Num(1), Num(25), Num(26), Num(50),
     Num(51), Num(100), Num(101), Num(250), Num(251), Num(500), Num(501),
     Num(1000), Num(1001), Num(1500)}

TotalClass(orderTotal) ==
    IF orderTotal.k = "num" THEN Max2(orderTotal.v, 0) ELSE 0

\* the minutes until expectedDispatch that are compared
RemainingCompared ==
    {-60, 0, 1, 120, 121, 240, 241, 480, 481, 720, 721, 1440, 1441, 2880,
     2881, 4000, 17880, 17881, 20000}

\* C32: for the order of a calculateDPS call, with every other field and
\* the clock as in the call and no cached score, the score never decreases
\* when orderTotal increases (negative and non-numeric totals counting as
\* zero) and never increases when the time left until expectedDispatch
\* increases.
C32_MonotoneInTotalAndDeadline ==
    (ScoreReturned /\ validateOrderForDPS(ScoredOrder)) =>
        LET byTotal == {<<TotalClass(total),
                          ScoreNow([ScoredOrder EXCEPT !.orderTotal = total])>> :
                            total \in TotalsCompared}
            byRemaining == {<<remaining,
                              ScoreNow([ScoredOrder EXCEPT
                                !.expectedDispatch = DateAt(now + remaining)])>> :
                                    remaining \in RemainingCompared}
        IN  /\ \A lower, higher \in byTotal :
                lower[1] < higher[1] => lower[2] <= higher[2]
            /\ \A sooner, later \in byRemaining :
                sooner[1] < later[1] => later[2] <= sooner[2]

\* a call scored an order of total 50 due in more than two days, without a
\* cached score: a higher total gives a higher score, a later dispatch a
\* lower one, an earlier dispatch a higher one
C32_Witness ==
    /\ ScoreReturned
    /\ validateOrderForDPS(ScoredOrder)
    /\ ScoredOrder.orderTotal = Num(50)
    /\ ScoredOrder.expectedDispatch = DateAt(4000)
    /\ queueCall.returned = ScoreNow(ScoredOrder)
    /\ queueCall.returned > 0
    /\ ScoreNow([ScoredOrder EXCEPT !.orderTotal = Num(1500)])
            > queueCall.returned
    /\ ScoreNow([ScoredOrder EXCEPT !.expectedDispatch = DateAt(now + 20000)])
            < queueCall.returned
    /\ ScoreNow([ScoredOrder EXCEPT !.expectedDispatch = DateAt(now + 120)])
            > queueCall.returned

\* the ages (minutes since orderDate) that are compared
AgesCompared ==
    {0, 120, 121, 360, 361, 720, 721, 1440, 1441, 2880, 2881, 4320, 4321,
     10000}

\* <<age, score, delivery promise score>> of the order of the call with its
\* orderDate moved to each of the ages
ScoresByAge ==
    {<<age,
       ScoreNow([ScoredOrder EXCEPT !.orderDate = DateAt(now - age)]),
       calculateDeliveryPromiseScore(DateAt(now - age),
                                     parseDate(ScoredOrder.deliveryBy))>> :
        age \in AgesCompared}

C34_GainWithinRange ==
    batchCall.op = "findBatchOpportunities" =>
        \A r \in 1..Len(Recommendations) :
            /\ 2000 * Recommendations[r].timeSavings
                    >= (20 * minEfficiencyGain - 1) * Recommendations[r].baseTime
            /\ 2000 * Recommendations[r].timeSavings
                    < (20 * maxEfficiencyGain + 1) * Recommendations[r].baseTime

(***************************************************************************)
(* Claims about the end of a pack workflow                                 *)
(***************************************************************************)
\* the orders whose pack session reached dispatched and moved to the history
DispatchedOrders ==
    {packHistory[i].orderNumber : i \in 1..Len(packHistory)}

\* C35: dispatched is terminal for the order: an order whose pack session
\* reached dispatched never has an active session again, whatever
\* startPackWorkflow and updatePackStatus calls follow.
C35_DispatchedIsTerminal ==
    \A o \in DispatchedOrders : o \notin DOMAIN packSessions

\* C36: for every order with an active pack session, the status of the
\* Order record equals the status of the session, after any sequence of
\* start, updatePackStatus and Mark Delivered actions, those that end in an
\* error included.
C36_OrderStatusFollowsSession ==
    \A o \in DOMAIN packSessions :
        /\ o \in DOMAIN ordersData
        /\ ordersData[o].status = packSessions[o].status

(***************************************************************************)
(* The calculation guard of updateQueue: loads with a null element make    *)
(* the call throw inside its try block                                     *)
(***************************************************************************)
GuardLoads ==
    LoadChoices \cup {<<NullOrder>>, <<QueueOrder("Q5"), NullOrder>>}

GuardNext ==
    \/ \E orders \in GuardLoads : UpdateQueue(GivenOrders(orders))
    \/ UpdateQueue(NoOrders)
    \/ \E o \in {"Q1", "Q5"} : MarkOrderDirty(o)
    \/ QueueTick

SpecGuard == QueueInit /\ [][GuardNext]_vars

CacheSteps == {2, 3}

CacheClock(step) ==
    /\ UNCHANGED notQueueVars
    /\ \E start \in QueueStartTimes :
            start <= now /\ now + step <= start + MaxElapsed
    /\ now' = now + step
    /\ queueCall' = QueueCall("tick", NoOrders, <<>>, <<>>)
    /\ UNCHANGED <<qOrders, priorityQueue, dirtyOrders, calculationCache,
                   isCalculating, lastCalculation, totalCalculations, queueOps>>

\* the order records calculateDPS is called with: two order numbers
CacheInputs ==
    {QOrder(o, orderDate, expectedDispatch, NullDate, orderTotal) :
        o \in {"S1", "S2"}, orderDate \in {DateAt(-60), BadDate},
        expectedDispatch \in {DateAt(-60), DateAt(4000)},
        orderTotal \in {Num(1500), Num(50)}}

CacheNext ==
    \/ \E order \in CacheInputs : CalculateDPS(order)
    \/ \E step \in CacheSteps : CacheClock(step)
    \/ SweepCache

SpecCache == QueueInit /\ [][CacheNext]_vars

\* the entries of the cache that calculateDPS may serve for an
\* order at the current time: same order number, same hour, younger than
\* five minutes
Servable(order) ==
    {key \in DOMAIN calculationCache :
        /\ key[1] = order.orderNumber
        /\ key[2] = now \div MinutesPerHour
        /\ now - calculationCache[key].timestamp >= 0
        /\ now - calculationCache[key].timestamp < CacheExpiryMinutes}

\* C38: a calculateDPS call on a valid order with readable dates returns the
\* score of a cache entry only when that entry has the order's number and the
\* current hour bucket and was stored less than 5 minutes ago; otherwise it
\* returns the freshly computed score and stores it under the current time.
C38_CachedOnlyWhenLive ==
    [][(/\ queueCall'.op = "calculateDPS"
        /\ validateOrderForDPS(queueCall'.arg.orders[1])
        /\ parseDate(queueCall'.arg.orders[1].orderDate).k # "null"
        /\ parseDate(queueCall'.arg.orders[1].expectedDispatch).k # "null")
        => LET order == queueCall'.arg.orders[1]
               key == <<order.orderNumber, now \div MinutesPerHour>>
           IN  IF Servable(order) # {}
               THEN /\ queueCall'.returned = calculationCache[key].score
                    /\ calculationCache' = calculationCache
               ELSE /\ queueCall'.returned = FreshScore(order, now)
                    /\ key \in DOMAIN calculationCache'
                    /\ calculationCache'[key] =
                          [score |-> FreshScore(order, now),
                           timestamp |-> now]]_vars

\* a call answered from an entry stored earlier in the same hour, although
\* the order's score computed now would be another one
C38_Witness ==
    /\ queueCall.op = "calculateDPS"
    /\ validateOrderForDPS(ScoredOrder)
    /\ Servable(ScoredOrder) # {}
    /\ \E key \in Servable(ScoredOrder) :
            /\ calculationCache[key].timestamp < now
            /\ queueCall.returned = calculationCache[key].score
    /\ queueCall.returned # FreshScore(ScoredOrder, now)

(***************************************************************************)
(* The optimizer under calls on pools of high-value orders                 *)
(***************************************************************************)
PremiumPool ==
    <<"ORD-502", "ORD-503", "ORD-504", "ORD-505", "ORD-506", "ORD-507",
      "ORD-508">>

\* <<target, pool>>: seven and eight high-value pool orders, an average
\* value below and above 1000, and a pool of one
PremiumCalls ==
    {<<"ORD-501", PremiumPool>>,
     <<"ORD-501", PremiumPool \o <<"ORD-509">>>>,
     <<"ORD-509", <<"ORD-501">> \o SubSeq(PremiumPool, 1, 6)>>,
     <<"ORD-501", <<"ORD-502">>>>,
     <<"ORD-401", PremiumPool>>}

PremiumNext ==
    \/ \E call \in PremiumCalls : findBatchOpportunities(call[1], call[2])
    \/ \E key \in {generateCacheKey(BatchOrder(call[1]), PoolOrders(call[2])) :
                        call \in PremiumCalls} : ExpireAnalysis(key)
    \/ BatchTick

SpecPremium == Init /\ [][PremiumNext]_vars

\* the eligible pool orders of the latest call that the value analysis
\* groups with the target
HighValueEligible ==
    SelectSeq(filterEligibleOrders(batchCall.given[1], Tail(batchCall.given),
                                   now),
              LAMBDA order : order.value >= highValueFloor
                                /\ order.urgencyScore < riskUrgencyScore)

\* C39: findBatchOpportunities on a target worth at least 500 with at least
\* seven eligible pool orders worth at least 500 and of urgency below 60
\* returns a recommendation of the type value_high.
C39_ValueBatchRecommended ==
    (/\ batchCall.op = "findBatchOpportunities"
     /\ Len(batchCall.given) > 1
     /\ batchCall.given[1].value >= highValueFloor
     /\ Len(HighValueEligible) >= maxBatchSize - 1)
        => /\ batchCall.result.success
           /\ \E i \in 1..Len(batchCall.result.batchOpportunities) :
                batchCall.result.batchOpportunities[i].type = "value_high"

\* what holds instead: no call returns a value_high recommendation
C39_NoValueBatch ==
    batchCall.op = "findBatchOpportunities"
        => \A i \in 1..Len(batchCall.result.batchOpportunities) :
                batchCall.result.batchOpportunities[i].type # "value_high"

\* the sessions that a step brings into the state packed
EntersPacked ==
    {o \in DOMAIN packSessions' :
        /\ packSessions'[o].status = "packed"
        /\ o \in DOMAIN packSessions => packSessions[o].status # "packed"}

\* C40: a session's actualDuration is null before the state packed; the step
\* into packed sets it to the minutes from the picking timestamp to the
\* packed timestamp, a number that is not negative, and adds one sample to
\* the worker's metrics: packCount + 1, totalPackTime + actualDuration,
\* averagePackTime = totalPackTime / packCount, bestTime <= worstTime.
C40_DurationAndOneSample ==
    /\ [](\A o \in DOMAIN packSessions :
            packSessions[o].status \in {"pending", "picking", "packing"}
                => packSessions[o].actualDuration = NullNum)
    /\ [][\A o \in EntersPacked :
            LET session == packSessions'[o]
                duration == session.actualDuration
                worker == session.workerName
                before == IF worker \in DOMAIN workerMetrics
                          THEN workerMetrics[worker] ELSE NewWorkerMetrics
                after == workerMetrics'[worker]
            IN  /\ duration.k = "num" /\ duration.v >= 0
                /\ duration.v = session.timestamps["packed"].t
                                    - session.timestamps["picking"].t
                /\ after.packCount = before.packCount + 1
                /\ before.totalPackTime.k = "num"
                /\ after.totalPackTime
                        = Num(before.totalPackTime.v + duration.v)
                /\ after.averagePackTime
                        = Ratio(after.totalPackTime, after.packCount)
                /\ after.bestTime.k = "num" /\ after.worstTime.k = "num"
                /\ after.bestTime.v <= after.worstTime.v]_vars

=============================================================================
